---- MODULE Spec2Model ----
(***************************************************************************)
(* A model of the Obsidian launcher plugin (src/main.py): vault discovery  *)
(* (find_vaults), the vault cache (refresh_vaults_cache), note search      *)
(* (search_notes) and the daily-note resolver (create_daily_note).         *)
(*                                                                         *)
(* Strings are sequences of one-character strings, paths are sequences of  *)
(* names.  The platform is a non-Windows one (no drive letters).           *)
(***************************************************************************)
EXTENDS Integers, Sequences, FiniteSets, TLC

VARIABLES
    pc,               \* "start" before ObsidianPlugin() is constructed, "ready" after, "crashed" if it raised
    now,              \* time.time(), seconds
    dirs,             \* the directories that exist on the filesystem
    registry,         \* obsidian.json: the set of [id, path] entries of its `vaults` map
    regfile,          \* obsidian.json: what the file holds ("map" when `vaults` is a map)
    vaults,           \* self.vaults
    vaults_cache,     \* self.vaults_cache (the keys of the dict)
    cache_timestamp,  \* self.cache_timestamp
    lastScan,         \* observation: time at which the last find_vaults pass completed
    lookup,           \* observation: what the last refresh_vaults_cache did
    notes,            \* search_notes: the files of the vault, in the order os.walk meets them
    query,            \* search_notes: the query argument
    limit,            \* search_notes: the limit argument
    results,          \* search_notes: the list it returned
    spc,              \* search_notes: "call" before the call, "done" after it returned
    dfs,              \* the files and folders of the vault the daily note is made in
    dconfig,          \* .obsidian/daily-notes.json of that vault (<<>> when there is none)
    writable,         \* whether the vault can be written to
    dret,             \* observation: the outcome of the last create_daily_note call
    dprev,            \* observation: the outcome of the call before it
    call,             \* the arguments of the call of the function under study
    ret,              \* what that call returned (<<>> before it)
    vfs               \* the files of the vaults the launcher is run on, per vault root

discVars == <<pc, now, dirs, registry, regfile, vaults, vaults_cache, cache_timestamp, lastScan, lookup>>

searchVars == <<notes, query, limit, results, spc>>

dailyVars == <<dfs, dconfig, writable, dret, dprev>>

callVars == <<call, ret>>

vars == <<discVars, searchVars, dailyVars, callVars, vfs>>

-----------------------------------------------------------------------------
(* Bounds *)

StartTime == 1000      \* time.time() when the process starts (any value above the TTL)
MaxElapsed == 302      \* the clock is followed for this many seconds
MaxFiles == 3          \* a searched vault holds at most this many files
MaxLimit == 3          \* search_notes is called with limit 0..MaxLimit
MaxCodes == 2          \* a date pattern is made of at most this many codes
MaxNotes == 2          \* create_new_note tries the suffixes 1..MaxNotes
TickSteps == {150, 151} \* the amounts by which the clock is seen to advance

-----------------------------------------------------------------------------
(* Names *)

Marker == <<".", "o", "b", "s", "i", "d", "i", "a", "n">>
Home == <<"h", "o", "m", "e">>
Documents == <<"D", "o", "c", "u", "m", "e", "n", "t", "s">>
OneDrive == <<"O", "n", "e", "D", "r", "i", "v", "e">>
Desktop == <<"D", "e", "s", "k", "t", "o", "p">>
Notes == <<"N", "o", "t", "e", "s">>
Obsidian == <<"O", "b", "s", "i", "d", "i", "a", "n">>
Dropbox == <<"D", "r", "o", "p", "b", "o", "x">>
GoogleDrive == <<"G", "o", "o", "g", "l", "e", " ", "D", "r", "i", "v", "e">>
ICloudDrive == <<"i", "C", "l", "o", "u", "d", "D", "r", "i", "v", "e">>
NodeModules == <<"n", "o", "d", "e", "_", "m", "o", "d", "u", "l", "e", "s">>
Trash == <<".", "t", "r", "a", "s", "h">>
Fake == <<"f", "a", "k", "e">>
NameA == <<"A">>
NameB == <<"B">>
NameSub == <<"S", "u", "b">>
NameC == <<"C">>
NameT == <<"T">>

\* the deny-list of find_vaults
ExcludedNames ==
    { NodeModules,
      <<"v", "e", "n", "v">>,
      <<".", "g", "i", "t">>,
      <<"_", "_", "p", "y", "c", "a", "c", "h", "e", "_", "_">>,
      <<"A", "p", "p", "D", "a", "t", "a">>,
      <<"P", "r", "o", "g", "r", "a", "m", " ", "F", "i", "l", "e", "s">>,
      <<"P", "r", "o", "g", "r", "a", "m", " ", "F", "i", "l", "e", "s", " ", "(", "x", "8", "6", ")">>,
      <<"W", "i", "n", "d", "o", "w", "s">>,
      <<"S", "y", "s", "t", "e", "m", "3", "2">>,
      <<"t", "e", "m", "p">>,
      <<"t", "m", "p">>,
      <<"$", "R", "e", "c", "y", "c", "l", "e", ".", "B", "i", "n">> }

-----------------------------------------------------------------------------
(* The filesystem: a tree of directories *)

BaseProfile == <<Home>>                       \* os.environ HOME
DirDocuments == BaseProfile \o <<Documents>>
DirA == DirDocuments \o <<NameA>>
DirSub == DirA \o <<NameSub>>
DirB == DirDocuments \o <<NameB>>
DirFake == DirA \o <<Marker, Fake>>
DirC == BaseProfile \o <<NodeModules, NameC>>
DirT == BaseProfile \o <<Trash, NameT>>

\* directories that always exist
Skeleton ==
    { BaseProfile, DirDocuments, DirA, DirSub, DirB,
      BaseProfile \o <<NodeModules>>, DirC, BaseProfile \o <<Trash>>, DirT }

\* directories that may or may not exist when discovery runs
Optional ==
    { DirA \o <<Marker>>, DirFake, DirFake \o <<Marker>>,
      DirSub \o <<Marker>>, DirB \o <<Marker>>, DirC \o <<Marker>>, DirT \o <<Marker>> }

AllDirs == Skeleton \cup Optional

\* directories that are created and removed while the plugin object lives
Toggle == { DirA \o <<Marker>>, DirSub \o <<Marker>>, DirB \o <<Marker>> }

Parent(p) == SubSeq(p, 1, Len(p) - 1)
Basename(p) == p[Len(p)]
IsPrefix(p, q) == Len(p) <= Len(q) /\ SubSeq(q, 1, Len(p)) = p

\* the directory trees discovery is run on
Trees == {Skeleton \cup S : S \in {T \in SUBSET Optional : \A p \in T : Parent(p) \in Skeleton \cup T}}

\* the enumeration orders a directory listing (os.scandir) may use
NameOrder == <<Documents, NodeModules, Trash, NameA, NameB, NameC, NameT, NameSub, Marker, Fake>>
Reverse(s) == [i \in 1..Len(s) |-> s[Len(s) + 1 - i]]
ListingOrders == {NameOrder, Reverse(NameOrder)}

\* the sub-directory names os.walk lists for directory d
ListDirs(d, fsd, ord) == SelectSeq(ord, LAMBDA n : (d \o <<n>>) \in fsd)

\* the contents of obsidian.json the model runs with
RegistryChoices ==
    { {},
      {[id |-> "v1", path |-> DirA]},
      {[id |-> "v1", path |-> DirFake], [id |-> "v2", path |-> DirB]} }

\* what obsidian.json may hold: no file, text that is not JSON, JSON that is
\* not an object, an object whose `vaults` is not a map (a list, a string,
\* null), a map with an entry whose `path` is null, or a map of well-formed
\* entries
RegistryShapes ==
    {"missing", "unparsable", "not_object", "vaults_not_map", "path_not_string", "map"}

\* lines 53-61: what registered_vaults is a map of after the file was read
registered_vaults(rf, reg) == IF rf = "map" THEN reg ELSE {}

\* lines 104-107, which no try encloses: .items() of a value that is not a
\* dict raises AttributeError, os.path.exists(None) raises TypeError
RegistryRaises(rf) == rf \in {"vaults_not_map", "path_not_string"}

-----------------------------------------------------------------------------
(* find_vaults *)

StartsWithDot(d) == Len(d) > 0 /\ d[1] = "."

\* dirs[:] = [d for d in dirs if not d.startswith('.') and d not in [...]]
FilterDirs(ds) == SelectSeq(ds, LAMBDA d : ~StartsWithDot(d) /\ d \notin ExcludedNames)

SeqToSet(s) == {s[i] : i \in 1..Len(s)}

\* list.remove(x): drops the first occurrence of x
ListRemove(s, x) ==
    LET i == CHOOSE k \in 1..Len(s) : s[k] = x /\ \A j \in 1..(k - 1) : s[j] # x
    IN  SubSeq(s, 1, i - 1) \o SubSeq(s, i + 1, Len(s))

\* the vault_id loop: the id of a registered vault with this path, or "None"
VaultIdOf(reg, p) ==
    IF \E e \in reg : e.path = p THEN (CHOOSE e \in reg : e.path = p).id ELSE "None"

VaultInfo(reg, root) ==
    [ name |-> Basename(root),
      path |-> root,
      config_path |-> root \o <<Marker>>,
      vault_id |-> VaultIdOf(reg, root),
      is_registered |-> VaultIdOf(reg, root) # "None" ]

\* AppendIfNew without the duplicate test
AppendAlways(vs, info) == Append(vs, info)

\* if not any(v['path'] == vault_path for v in vaults): vaults.append(vault_info)
AppendIfNew(vs, info) ==
    IF \E i \in 1..Len(vs) : vs[i].path = info.path THEN vs ELSE Append(vs, info)

\* The body of `for root, dirs, files in os.walk(search_path)` at directory
\* root, followed by the walk of the sub-directories left in dirs.  acc is
\* [vaults, raised]: raised becomes TRUE when the body raises, which ends the
\* walk of this search path (except Exception: continue).
RECURSIVE WalkFrom(_, _, _, _, _)
RECURSIVE WalkChildren(_, _, _, _, _, _)

WalkFrom(root, acc, fsd, reg, ord) ==
    IF acc.raised THEN acc
    ELSE
      LET filtered == FilterDirs(ListDirs(root, fsd, ord))
          isVault == (root \o <<Marker>>) \in fsd
          acc1 == IF isVault
                  THEN [acc EXCEPT !.vaults = AppendIfNew(acc.vaults, VaultInfo(reg, root))]
                  ELSE acc
          \* dirs.remove('.obsidian') raises ValueError when it is not in dirs
          removeRaises == isVault /\ Marker \notin SeqToSet(filtered)
          descend == IF isVault /\ ~removeRaises THEN ListRemove(filtered, Marker) ELSE filtered
      IN  IF removeRaises
          THEN [acc1 EXCEPT !.raised = TRUE]
          ELSE WalkChildren(root, descend, acc1, fsd, reg, ord)

WalkChildren(root, ds, acc, fsd, reg, ord) ==
    IF ds = <<>> THEN acc
    ELSE WalkChildren(root, Tail(ds), WalkFrom(root \o <<Head(ds)>>, acc, fsd, reg, ord), fsd, reg, ord)

\* the candidate search paths: the well-known folders of the profile, the
\* profile itself and the registered vault paths that exist
SearchCandidates(fsd, reg) ==
    { BaseProfile \o <<Documents>>,
      BaseProfile \o <<OneDrive, Documents>>,
      BaseProfile \o <<Desktop>>,
      BaseProfile \o <<Notes>>,
      BaseProfile \o <<Obsidian>>,
      BaseProfile \o <<Dropbox>>,
      BaseProfile \o <<GoogleDrive>>,
      BaseProfile \o <<ICloudDrive>>,
      BaseProfile }
    \cup { e.path : e \in {x \in reg : x.path \in fsd} }

\* search_paths after list(set(...)) and the existence filter
SearchPaths(fsd, reg) == {p \in SearchCandidates(fsd, reg) : p \in fsd}

\* the orders in which list(set(search_paths)) may enumerate the paths
Orderings(S) ==
    {s \in [1..Cardinality(S) -> S] : \A i, j \in 1..Cardinality(S) : i # j => s[i] # s[j]}

\* for search_path in search_paths: try: walk ... except: continue
RECURSIVE ScanPaths(_, _, _, _, _)
ScanPaths(paths, vs, fsd, reg, ord) ==
    IF paths = <<>> THEN vs
    ELSE ScanPaths(Tail(paths),
                   WalkFrom(Head(paths), [vaults |-> vs, raised |-> FALSE], fsd, reg, ord).vaults,
                   fsd, reg, ord)

\* find_vaults: the list it returns, for one enumeration order of the search
\* paths and one listing order of the directories
find_vaults(fsd, reg, pathOrder, ord) == ScanPaths(pathOrder, <<>>, fsd, reg, ord)

PathsOf(vs) == {vs[i].path : i \in 1..Len(vs)}

-----------------------------------------------------------------------------
(* search_notes *)

PreviewMax == 100
NoPreview == <<"N", "o", " ", "p", "r", "e", "v", "i", "e", "w", " ", "a", "v", "a", "i", "l", "a", "b", "l", "e">>
Ellipsis == <<".", ".", ".">>
ExtMd == <<".", "m", "d">>
NL == "\n"

UpperCase == <<"A", "B", "C", "D", "E", "F", "G", "H", "I", "J", "K", "L", "M",
               "N", "O", "P", "Q", "R", "S", "T", "U", "V", "W", "X", "Y", "Z">>
LowerCase == <<"a", "b", "c", "d", "e", "f", "g", "h", "i", "j", "k", "l", "m",
               "n", "o", "p", "q", "r", "s", "t", "u", "v", "w", "x", "y", "z">>

\* str.lower()
LowerChar(c) ==
    IF \E i \in 1..Len(UpperCase) : UpperCase[i] = c
    THEN LowerCase[CHOOSE i \in 1..Len(UpperCase) : UpperCase[i] = c]
    ELSE c
Lower(s) == [i \in 1..Len(s) |-> LowerChar(s[i])]

\* s.find(q) >= 0
Contains(s, q) == \E i \in 0..(Len(s) - Len(q)) : SubSeq(s, i + 1, i + Len(q)) = q

\* s.endswith(e)
EndsWith(s, e) == Len(s) >= Len(e) /\ SubSeq(s, Len(s) - Len(e) + 1, Len(s)) = e

\* s[:-3]
DropLast3(s) == SubSeq(s, 1, Len(s) - 3)

\* s.split('\n'): the pieces between the separators, at least one piece
RECURSIVE SplitLines(_)
SplitLines(s) ==
    IF \E i \in 1..Len(s) : s[i] = NL
    THEN LET i == CHOOSE k \in 1..Len(s) : s[k] = NL /\ \A j \in 1..(k - 1) : s[j] # NL
         IN  <<SubSeq(s, 1, i - 1)>> \o SplitLines(SubSeq(s, i + 1, Len(s)))
    ELSE <<s>>

\* lines[0] if lines else "No preview available", cut to 100 characters + "..."
PreviewOf(content) ==
    LET lines == SplitLines(content)
        preview == IF lines # <<>> THEN lines[1] ELSE NoPreview
    IN  IF Len(preview) > PreviewMax
        THEN SubSeq(preview, 1, PreviewMax) \o Ellipsis
        ELSE preview

\* the match test with the title left out
ContentMatchOnly(file, content, query_lower) == Contains(Lower(content), query_lower)

\* title_match or content_match
IsMatch(file, content, query_lower) ==
    \/ Contains(Lower(DropLast3(file)), query_lower)
    \/ Contains(Lower(content), query_lower)

\* the walk of search_notes does not descend into a directory named
\* .obsidian or starting with '.'
WalkVisits(dir) == \A i \in 1..Len(dir) : dir[i] # Marker /\ ~StartsWithDot(dir[i])

\* the dict appended to results for a matching file
Hit(n) ==
    [ file |-> n.file,
      path |-> n.dir \o <<n.file>>,
      rel_path |-> n.dir \o <<n.file>>,
      title |-> DropLast3(n.file),
      preview |-> PreviewOf(n.content),
      mtime |-> n.mtime ]

\* the loop over the files of the walk: a file is appended when it ends in
\* .md, can be read, matches, and its modification time can be read
RECURSIVE CollectHits(_, _)
CollectHits(ns, query_lower) ==
    IF ns = <<>> THEN <<>>
    ELSE LET n == Head(ns)
             rest == CollectHits(Tail(ns), query_lower)
         IN  IF /\ WalkVisits(n.dir)
                /\ EndsWith(n.file, ExtMd)
                /\ n.fault # "read"
                /\ IsMatch(n.file, n.content, query_lower)
                /\ n.fault # "stat"
             THEN <<Hit(n)>> \o rest
             ELSE rest

\* a sort key that leaves the rank out
TimeOnlyKey(x, query_lower) == <<0, -x.mtime>>

\* key=lambda x: (0 if query_lower in x['title'].lower() else 1, -x['mtime'])
SortKey(x, query_lower) ==
    <<IF Contains(Lower(x.title), query_lower) THEN 0 ELSE 1, -x.mtime>>

\* comparison of two key tuples
KeyLess(a, b) == a[1] < b[1] \/ (a[1] = b[1] /\ a[2] < b[2])

\* list.sort is stable: an element is placed after the elements, already
\* placed, whose key is not greater than its own
RECURSIVE InsertSorted(_, _, _)
InsertSorted(x, s, q) ==
    IF s = <<>> THEN <<x>>
    ELSE IF KeyLess(SortKey(x, q), SortKey(Head(s), q))
         THEN <<x>> \o s
         ELSE <<Head(s)>> \o InsertSorted(x, Tail(s), q)

RECURSIVE SortHits(_, _)
SortHits(s, q) ==
    IF s = <<>> THEN <<>>
    ELSE InsertSorted(s[Len(s)], SortHits(SubSeq(s, 1, Len(s) - 1), q), q)

\* s[:n]
Slice(s, n) ==
    IF n >= 0 THEN SubSeq(s, 1, IF n < Len(s) THEN n ELSE Len(s))
    ELSE SubSeq(s, 1, IF Len(s) + n > 0 THEN Len(s) + n ELSE 0)

\* the sort and the cut, done in the other order
CutThenRank(hits, query_lower, lim) == SortHits(Slice(hits, lim), query_lower)

\* results.sort(...); return results[:limit]
RankAndCut(hits, query_lower, lim) == Slice(SortHits(hits, query_lower), lim)

\* search_notes with the failure of one file caught by the outer except
AnyFaultEmpties(ns, q, lim) ==
    IF \E i \in DOMAIN ns : ns[i].fault # "none" /\ WalkVisits(ns[i].dir) /\ EndsWith(ns[i].file, ExtMd)
    THEN <<>>
    ELSE RankAndCut(CollectHits(ns, Lower(q)), Lower(q), lim)

search_notes(ns, q, lim) == RankAndCut(CollectHits(ns, Lower(q)), Lower(q), lim)

Rep(c, n) == [i \in 1..n |-> c]

\* the files the searched vaults are made of
Catalog ==
    { [dir |-> <<>>, file |-> <<"H", "i", ".", "m", "d">>, content |-> <<>>, mtime |-> 1, fault |-> "none"],
      [dir |-> <<>>, file |-> <<"H", "i", ".", "m", "d">>, content |-> <<"x">>, mtime |-> 2, fault |-> "none"],
      [dir |-> <<>>, file |-> <<"b", ".", "m", "d">>, content |-> <<"x", NL, "h", "I">>, mtime |-> 2, fault |-> "none"],
      [dir |-> <<>>, file |-> <<"b", ".", "m", "d">>, content |-> Rep("a", PreviewMax + 1) \o <<NL, "h", "i">>, mtime |-> 1, fault |-> "none"],
      [dir |-> <<>>, file |-> <<"c", ".", "m", "d">>, content |-> Rep("a", PreviewMax - 2) \o <<"h", "i">>, mtime |-> 2, fault |-> "none"],
      [dir |-> <<>>, file |-> <<"c", ".", "m", "d">>, content |-> <<"z", "z">>, mtime |-> 3, fault |-> "none"],
      [dir |-> <<NameSub>>, file |-> <<"h", "i", "2", ".", "m", "d">>, content |-> <<"z", NL>>, mtime |-> 2, fault |-> "none"],
      [dir |-> <<Trash>>, file |-> <<"H", "i", ".", "m", "d">>, content |-> <<"h", "i">>, mtime |-> 3, fault |-> "none"],
      [dir |-> <<>>, file |-> <<"H", "i", ".", "t", "x", "t">>, content |-> <<"h", "i">>, mtime |-> 3, fault |-> "none"],
      [dir |-> <<>>, file |-> <<"d", ".", "m", "d">>, content |-> <<"h", "i">>, mtime |-> 3, fault |-> "read"],
      [dir |-> <<NameSub>>, file |-> <<"e", ".", "m", "d">>, content |-> <<"h", "i">>, mtime |-> 3, fault |-> "stat"] }

Queries == { <<"h", "i">>, <<"H", "i">> }

\* the listings os.walk can produce: no path twice, the files of the vault
\* root before the files of its sub-directories
Listings ==
    { s \in UNION {[1..n -> Catalog] : n \in 0..MaxFiles} :
        \A i, j \in 1..Len(s) :
            i < j => /\ s[i].dir \o <<s[i].file>> # s[j].dir \o <<s[j].file>>
                     /\ ~(s[i].dir # <<>> /\ s[j].dir = <<>>) }

SearchIdle ==
    /\ notes = <<>>
    /\ query = <<>>
    /\ limit = 0
    /\ results = <<>>
    /\ spc = "idle"

-----------------------------------------------------------------------------
(* create_daily_note *)

SecondsPerDay == 86400
SecondsPerMinute == 60

DigitChars == <<"0", "1", "2", "3", "4", "5", "6", "7", "8", "9">>

\* the decimal digits of a natural number
RECURSIVE Digits(_)
Digits(n) == IF n < 10 THEN <<DigitChars[n + 1]>> ELSE Digits(n \div 10) \o <<DigitChars[(n % 10) + 1]>>

\* strftime renders the clock at the granularity of its format: the day for
\* '%Y-%m-%d' and '%b %d %Y', the minute for '%H:%M', the second for
\* '%Y-%m-%d %H:%M:%S'.  The renderings are written as a letter and a count.
DateStr(t) == <<"d">> \o Digits(t \div SecondsPerDay)
MonthDayYearStr(t) == <<"b">> \o Digits(t \div SecondsPerDay)
HourMinuteStr(t) == <<"m">> \o Digits(t \div SecondsPerMinute)
DateTimeStr(t) == <<"s">> \o Digits(t)

\* str.replace(old, new): every non-overlapping occurrence, left to right
RECURSIVE ReplaceAll(_, _, _)
ReplaceAll(s, old, new) ==
    IF Len(s) < Len(old) \/ old = <<>> THEN s
    ELSE IF SubSeq(s, 1, Len(old)) = old
         THEN new \o ReplaceAll(SubSeq(s, Len(old) + 1, Len(s)), old, new)
         ELSE <<Head(s)>> \o ReplaceAll(Tail(s), old, new)

VarTitle == <<"{", "{", "t", "i", "t", "l", "e", "}", "}">>
VarDate == <<"{", "{", "d", "a", "t", "e", "}", "}">>
VarTime == <<"{", "{", "t", "i", "m", "e", "}", "}">>
VarDateYMD == <<"{", "{", "d", "a", "t", "e", ":", "Y", "Y", "Y", "Y", "-", "M", "M", "-", "D", "D", "}", "}">>
VarDateMDY == <<"{", "{", "d", "a", "t", "e", ":", "M", "M", "M", " ", "D", "D", " ", "Y", "Y", "Y", "Y", "}", "}">>

\* process_template: the variables are replaced one after the other
process_template(template_content, title, t) ==
    LET c1 == ReplaceAll(template_content, VarTitle, title)
        c2 == ReplaceAll(c1, VarDate, DateStr(t))
        c3 == ReplaceAll(c2, VarTime, HourMinuteStr(t))
        c4 == ReplaceAll(c3, VarDateYMD, DateStr(t))
    IN  ReplaceAll(c4, VarDateMDY, MonthDayYearStr(t))

\* the body written when there is no template content
DefaultBody(title, t) ==
    <<"#", " ">> \o title \o <<NL, NL>>
    \o <<"D", "a", "t", "e", ":", " ">> \o DateTimeStr(t) \o <<NL, NL>>
    \o <<"#", "#", " ", "N", "o", "t", "e", "s", NL, NL>>
    \o <<"-", " ", NL, NL>>

Daily == <<"D", "a", "i", "l", "y">>
Journal == <<"J">>
Tmpl == <<"T">>
TitleN == <<"n">>
None == <<"N", "o", "n", "e">>     \* stands for Python's None

VaultRoot == DirB

Absent == [kind |-> "absent", content |-> <<>>]
Dir == [kind |-> "dir", content |-> <<>>]
File(c) == [kind |-> "file", content |-> c]

\* the folders and titles of the model, and the paths (relative to the vault
\* root) create_daily_note reads or writes
DailyFolders == {Daily, Journal}
DailyTitles == {TitleN} \cup {DateStr(t) : t \in StartTime..(StartTime + MaxElapsed + 1)}
NotePath(folder, title) == <<folder, title \o ExtMd>>
TemplatePaths == {<<Tmpl \o ExtMd>>, <<Tmpl>>}
DPaths ==
    {<<f>> : f \in DailyFolders}
    \cup {NotePath(f, t) : f \in DailyFolders, t \in DailyTitles}
    \cup TemplatePaths

\* get_daily_notes_config: the parsed file, or <<>> for None
NoConfig == <<>>
DailyConfigs ==
    { NoConfig,
      [folder |-> Journal],
      [template |-> Tmpl],
      [folder |-> Journal, template |-> Tmpl] }

HasKey(cfg, k) == k \in DOMAIN cfg

\* the template texts a vault may hold
TemplateTexts == { <<"T", ":">> \o VarTitle \o <<" ">> \o VarTime, <<>> }

\* os.path.exists(path)
PathExists(fs, path) == fs[path].kind # "absent"

\* the test for an existing note, never finding one
NoteNeverExists(fs, full_path) == FALSE

\* if os.path.exists(full_path): the note already exists
NoteExists(fs, full_path) == PathExists(fs, full_path)

\* the text of the first existing template candidate, processed, or "" when no
\* template is configured or none exists
TemplateContent(fs, cfg, title, t) ==
    IF HasKey(cfg, "template")
    THEN LET withExt == <<cfg.template \o ExtMd>>
             bare == <<cfg.template>>
         IN  IF PathExists(fs, withExt) THEN process_template(fs[withExt].content, title, t)
             ELSE IF PathExists(fs, bare) THEN process_template(fs[bare].content, title, t)
             ELSE <<>>
    ELSE <<>>

\* create_daily_note_with_template: the filesystem it leaves and what it returns
create_daily_note_with_template(fs, daily_path, title, cfg, t, w) ==
    LET full_path == daily_path \o <<title \o ExtMd>>
        fromTemplate == TemplateContent(fs, cfg, title, t)
        content == IF fromTemplate = <<>> THEN DefaultBody(title, t) ELSE fromTemplate
    IN  IF NoteExists(fs, full_path)
        THEN [fs |-> fs, kind |-> "ok", path |-> VaultRoot \o full_path, rel |-> full_path,
              writeFailed |-> FALSE]
        ELSE IF w   \* open(full_path, 'w') and f.write succeed
             THEN [fs |-> [fs EXCEPT ![full_path] = File(content)], kind |-> "ok",
                   path |-> VaultRoot \o full_path, rel |-> full_path, writeFailed |-> FALSE]
             ELSE [fs |-> fs, kind |-> "failed", path |-> None, rel |-> None,
                   writeFailed |-> TRUE]

\* os.makedirs(daily_path, exist_ok=True) raises when the path is a file or
\* the folder is missing and cannot be created
MakedirsRaises(fs, daily_path, w) ==
    \/ fs[daily_path].kind = "file"
    \/ fs[daily_path].kind = "absent" /\ ~w

\* create_daily_note(vault_path, title): the filesystem it leaves and its
\* outcome; kind is "ok" for a returned path pair, "failed" for (None, None)
\* and "raised" when an exception leaves the function
create_daily_note(fs, cfg, titleArg, t, w) ==
    LET title == IF titleArg = None \/ titleArg = <<>> THEN DateStr(t) ELSE titleArg
        daily_folder == IF HasKey(cfg, "folder") THEN cfg.folder ELSE Daily
        daily_path == <<daily_folder>>
        target == NotePath(daily_folder, title)
        fs1 == IF fs[daily_path].kind = "absent" THEN [fs EXCEPT ![daily_path] = Dir] ELSE fs
        r == create_daily_note_with_template(fs1, daily_path, title, cfg, t, w)
    IN  IF MakedirsRaises(fs, daily_path, w)
        THEN [fs |-> fs, kind |-> "raised", path |-> None, rel |-> None, title |-> title,
              target |-> target, existed |-> PathExists(fs, target),
              folderFailed |-> TRUE, writeFailed |-> FALSE]
        ELSE [fs |-> r.fs, kind |-> r.kind, path |-> r.path, rel |-> r.rel, title |-> title,
              target |-> target, existed |-> PathExists(fs, target),
              folderFailed |-> FALSE, writeFailed |-> r.writeFailed]

NoCall == [kind |-> "none", path |-> None, rel |-> None, title |-> None, target |-> <<>>,
           existed |-> FALSE, changed |-> FALSE, folderFailed |-> FALSE, writeFailed |-> FALSE,
           at |-> 0]

\* what is kept of the call before the last one
Brief(r) == [kind |-> r.kind, title |-> r.title, path |-> r.path, rel |-> r.rel]

DailyIdle ==
    /\ dfs = [p \in DPaths |-> Absent]
    /\ dconfig = NoConfig
    /\ writable = TRUE
    /\ dret = NoCall
    /\ dprev = Brief(NoCall)

\* the vaults create_daily_note is called on: the daily folder is missing, a
\* folder or (by accident) a file; a note of the user may already be there;
\* the template may be stored with or without the .md extension
DailyVaults ==
    { [p \in DPaths |->
          IF p \in {<<f>> : f \in DailyFolders} THEN folderNode
          ELSE IF p = NotePath(Daily, TitleN) \/ p = NotePath(Journal, DateStr(StartTime))
               THEN (IF folderNode = Dir THEN noteNode ELSE Absent)
          ELSE IF p = <<Tmpl \o ExtMd>> THEN tmplExt
          ELSE IF p = <<Tmpl>> THEN tmplBare
          ELSE Absent] :
        folderNode \in {Absent, Dir, File(<<"x">>)},
        noteNode \in {Absent, File(<<"u">>)},
        tmplExt \in {Absent} \cup {File(c) : c \in TemplateTexts},
        tmplBare \in {Absent, File(<<"B">>)} }

-----------------------------------------------------------------------------
(* create_new_note *)

\* the characters of the class [<>:"/\\|?*]
ForbiddenChars == {"<", ">", ":", "\"", "/", "\\", "|", "?", "*"}

\* re.sub(r'[<>:"/\\|?*]', '_', title)
Sanitize(title) == [i \in 1..Len(title) |-> IF title[i] \in ForbiddenChars THEN "_" ELSE title[i]]

\* the path (relative to the vault root) tried first (k = 0) and after k
\* rounds of the loop: "<filename>.md", "<filename> <k>.md"
Candidate(filename, k) ==
    IF k = 0 THEN <<filename \o ExtMd>>
    ELSE <<filename \o <<" ">> \o Digits(k) \o ExtMd>>

\* the titles notes are created with, and the paths their names can take
NewTitles == { <<"n">>, <<"a", "/", "b">>, <<"a", "_", "b">> }
NewPaths == {Candidate(Sanitize(t), k) : t \in NewTitles, k \in 0..MaxNotes}

\* the paths of a vault in which daily notes and new notes are created
VPaths == DPaths \cup NewPaths

\* the loop, never entered
ZeroRounds(fs, filename) == 0

\* while os.path.exists(full_path): the number of rounds of the loop, that is
\* the first k whose candidate does not exist
FirstFree(fs, filename) ==
    CHOOSE k \in 0..MaxNotes :
        /\ ~PathExists(fs, Candidate(filename, k))
        /\ \A j \in 0..(k - 1) : PathExists(fs, Candidate(filename, j))

\* the loop ends within the suffixes of the model
HasFree(fs, filename) == \E k \in 0..MaxNotes : ~PathExists(fs, Candidate(filename, k))

\* the text written to a new note
NewBody(title, t) ==
    <<"#", " ">> \o title \o <<NL, NL>>
    \o <<"C", "r", "e", "a", "t", "e", "d", ":", " ">> \o DateTimeStr(t) \o <<NL, NL>>
    \o <<"#", "#", " ", "C", "o", "n", "t", "e", "n", "t", NL, NL>>
    \o <<"-", " ", NL, NL>>

\* create_new_note: the filesystem it leaves and the pair it returns
create_new_note(fs, title, t, w) ==
    LET filename == Sanitize(title)
        full_path == Candidate(filename, FirstFree(fs, filename))
    IN  IF w   \* open(full_path, 'w') and the writes succeed
        THEN [fs |-> [fs EXCEPT ![full_path] = File(NewBody(title, t))],
              path |-> VaultRoot \o full_path, rel |-> full_path]
        ELSE [fs |-> fs, path |-> None, rel |-> None]

\* the vaults create_new_note is called on: any of the names may be taken by
\* a note of the user's, or by a folder
NewVaults ==
    { [p \in VPaths |->
          IF p = Candidate(<<"n">>, 0) THEN first
          ELSE IF p = Candidate(<<"n">>, 1) THEN second
          ELSE IF p = Candidate(<<"a", "_", "b">>, 0) THEN other
          ELSE Absent] :
        first \in {Absent, File(<<"u">>), Dir},
        second \in {Absent, File(<<"v">>)},
        other \in {Absent, File(<<"w">>)} }

-----------------------------------------------------------------------------
(* open_note *)

\* a path as the string the program holds: '/' before every name
RECURSIVE PathStr(_)
PathStr(p) == IF p = <<>> THEN <<>> ELSE <<"/">> \o Head(p) \o PathStr(Tail(p))

\* s.startswith(prefix)
StartsWith(s, prefix) == Len(s) >= Len(prefix) /\ SubSeq(s, 1, Len(prefix)) = prefix

DotDot == <<".", ".">>

\* the number of leading names two paths share
RECURSIVE CommonLen(_, _)
CommonLen(a, b) ==
    IF a = <<>> \/ b = <<>> \/ Head(a) # Head(b) THEN 0
    ELSE 1 + CommonLen(Tail(a), Tail(b))

\* os.path.relpath(path, start): '..' for every name of start below the
\* common part, then the rest of path
relpath(path, start) ==
    LET i == CommonLen(path, start)
    IN  [k \in 1..(Len(start) - i) |-> DotDot] \o SubSeq(path, i + 1, Len(path))

\* the loop of lines 553-556: the index of the first vault whose path string
\* the note's path string starts with, 0 when there is none
FirstPrefixVault(vs, note_path) ==
    IF \E i \in DOMAIN vs : StartsWith(PathStr(note_path), PathStr(vs[i].path))
    THEN CHOOSE i \in DOMAIN vs :
             /\ StartsWith(PathStr(note_path), PathStr(vs[i].path))
             /\ \A j \in 1..(i - 1) : ~StartsWith(PathStr(note_path), PathStr(vs[j].path))
    ELSE 0

\* open_note: what is opened; the URI is built from the name of the vault and
\* the path of the note relative to it, without a vault the file is handed to
\* the default opener
open_note(vs, note_path) ==
    LET i == FirstPrefixVault(vs, note_path)
    IN  IF i # 0
        THEN [opened |-> "uri", vault_path |-> vs[i].path, vault_name |-> Basename(vs[i].path),
              rel_path |-> relpath(note_path, vs[i].path)]
        ELSE [opened |-> "file", vault_path |-> <<>>, vault_name |-> <<>>, rel_path |-> <<>>]

NameA2 == <<"A", "2">>
NoteX == <<"x", ".", "m", "d">>

\* the notes open_note is asked to open: in a vault, in a vault nested in a
\* vault, in a folder next to a vault whose name starts with the vault's
\* name, outside every vault
OpenNotePaths ==
    { DirA \o <<NoteX>>, DirSub \o <<NoteX>>, DirB \o <<NoteX>>, DirB \o <<Daily, NoteX>>,
      DirDocuments \o <<NameA2, NoteX>>, DirDocuments \o <<NoteX>> }

\* self.vaults when open_note runs: the vaults among A, A/Sub, A2 and B, in
\* any order
OpenVaultLists ==
    UNION { {s \in [1..Cardinality(S) -> {VaultInfo({}, d) : d \in S}] :
                \A i, j \in DOMAIN s : i # j => s[i] # s[j]} :
            S \in SUBSET {DirA, DirSub, DirDocuments \o <<NameA2>>, DirB} }

-----------------------------------------------------------------------------
(* get_vault_info *)

RecentMax == 5

\* dirs[:] = [d for d in dirs if not d.startswith('.')]: the walk stays out of
\* hidden directories
InfoVisits(dir) == \A i \in 1..Len(dir) : ~StartsWithDot(dir[i])

\* note_count: the .md files the walk meets, whether or not their
\* modification time can be read
RECURSIVE CountNotes(_)
CountNotes(ns) ==
    IF ns = <<>> THEN 0
    ELSE (IF InfoVisits(Head(ns).dir) /\ EndsWith(Head(ns).file, ExtMd) THEN 1 ELSE 0)
         + CountNotes(Tail(ns))

\* recent_notes before the sort: (file_path, mtime) of the notes whose
\* getmtime did not raise, in the order of the walk
RECURSIVE StatNotes(_)
StatNotes(ns) ==
    IF ns = <<>> THEN <<>>
    ELSE LET n == Head(ns)
         IN  (IF InfoVisits(n.dir) /\ EndsWith(n.file, ExtMd) /\ n.fault # "stat"
              THEN << <<n.dir \o <<n.file>>, n.mtime>> >>
              ELSE <<>>)
             \o StatNotes(Tail(ns))

\* recent_notes.sort(key=lambda x: x[1], reverse=True): stable, newest first
RECURSIVE InsertRecent(_, _)
InsertRecent(x, s) ==
    IF s = <<>> THEN <<x>>
    ELSE IF x[2] > Head(s)[2]
         THEN <<x>> \o s
         ELSE <<Head(s)>> \o InsertRecent(x, Tail(s))

RECURSIVE SortRecent(_)
SortRecent(s) ==
    IF s = <<>> THEN <<>>
    ELSE InsertRecent(s[Len(s)], SortRecent(SubSeq(s, 1, Len(s) - 1)))

\* what .obsidian/config of a vault may be
ConfigStates == {"absent", "valid", "malformed"}

\* get_vault_info: json.load of a malformed config raises inside the try that
\* encloses the whole body, and the except of line 277 answers for it
get_vault_info(ns, cfg) ==
    IF cfg = "malformed"
    THEN [note_count |-> 0, recent_notes |-> <<>>, config |-> "empty"]
    ELSE [note_count |-> CountNotes(ns),
          recent_notes |-> Slice(SortRecent(StatNotes(ns)), RecentMax),
          config |-> IF cfg = "valid" THEN "parsed" ELSE "empty"]

NoteFile(c) == <<c>> \o ExtMd

\* the files the inspected vaults are made of
InfoCatalog ==
    << [dir |-> <<>>, file |-> NoteFile("1"), content |-> <<>>, mtime |-> 1, fault |-> "none"],
       [dir |-> <<>>, file |-> NoteFile("2"), content |-> <<>>, mtime |-> 5, fault |-> "none"],
       [dir |-> <<>>, file |-> NoteFile("3"), content |-> <<>>, mtime |-> 3, fault |-> "none"],
       [dir |-> <<>>, file |-> NoteFile("4"), content |-> <<>>, mtime |-> 3, fault |-> "none"],
       [dir |-> <<>>, file |-> <<"9", ".", "t", "x", "t">>, content |-> <<>>, mtime |-> 9, fault |-> "none"],
       [dir |-> <<NameSub>>, file |-> NoteFile("5"), content |-> <<>>, mtime |-> 4, fault |-> "none"],
       [dir |-> <<NameSub>>, file |-> NoteFile("6"), content |-> <<>>, mtime |-> 2, fault |-> "none"],
       [dir |-> <<NameSub>>, file |-> NoteFile("7"), content |-> <<>>, mtime |-> 9, fault |-> "stat"],
       [dir |-> <<Trash>>, file |-> NoteFile("8"), content |-> <<>>, mtime |-> 9, fault |-> "none"] >>

\* the listings os.walk can produce of them: the files of a directory come in
\* the order of the catalog or in the opposite order
InfoListings ==
    { SelectSeq(order, LAMBDA n : n \in chosen) :
        chosen \in SUBSET {InfoCatalog[i] : i \in DOMAIN InfoCatalog},
        order \in {InfoCatalog,
                   Reverse(SubSeq(InfoCatalog, 1, 5)) \o Reverse(SubSeq(InfoCatalog, 6, 8))
                       \o SubSeq(InfoCatalog, 9, 9)} }

-----------------------------------------------------------------------------
(* obsidian_to_python_format *)

\* format_mapping with the two-letter year ahead of the four-letter one
ShortYearFirst ==
    << << <<"Y","Y">>, <<"%","y">> >>,
       << <<"Y","Y","Y","Y">>, <<"%","Y">> >>,
       << <<"M","M","M","M">>, <<"%","B">> >>,
       << <<"M","M","M">>, <<"%","b">> >>,
       << <<"M","M">>, <<"%","m">> >>,
       << <<"D","D">>, <<"%","d">> >>,
       << <<"D">>, <<"%","-","d">> >>,
       << <<"d","d","d","d">>, <<"%","A">> >>,
       << <<"d","d","d">>, <<"%","a">> >>,
       << <<"w","w">>, <<"%","U">> >>,
       << <<"w">>, <<"%","W">> >> >>

\* format_mapping: the (Obsidian code, strftime code) pairs, in the order of
\* the list; 'D' maps to '%-d' off Windows
format_mapping ==
    << << <<"Y","Y","Y","Y">>, <<"%","Y">> >>,
       << <<"Y","Y">>, <<"%","y">> >>,
       << <<"M","M","M","M">>, <<"%","B">> >>,
       << <<"M","M","M">>, <<"%","b">> >>,
       << <<"M","M">>, <<"%","m">> >>,
       << <<"D","D">>, <<"%","d">> >>,
       << <<"D">>, <<"%","-","d">> >>,
       << <<"d","d","d","d">>, <<"%","A">> >>,
       << <<"d","d","d">>, <<"%","a">> >>,
       << <<"w","w">>, <<"%","U">> >>,
       << <<"w">>, <<"%","W">> >> >>

\* the loop of lines 480-481 over the first n pairs of the table
RECURSIVE ReplaceCodes(_, _)
ReplaceCodes(python_format, n) ==
    IF n = 0 THEN python_format
    ELSE ReplaceAll(ReplaceCodes(python_format, n - 1), format_mapping[n][1], format_mapping[n][2])

obsidian_to_python_format(obsidian_format) == ReplaceCodes(obsidian_format, Len(format_mapping))

\* the Obsidian codes of the table and what separates them in a pattern
ObsidianCodes == {format_mapping[i][1] : i \in DOMAIN format_mapping}
Separators == {<<>>, <<"-">>}

\* the patterns made of at most n codes
RECURSIVE PatternsUpTo(_)
PatternsUpTo(n) ==
    IF n = 0 THEN {<<>>}
    ELSE LET shorter == PatternsUpTo(n - 1)
         IN  shorter \cup {p \o sep \o code : p \in shorter, sep \in Separators, code \in ObsidianCodes}

IsoPattern == <<"Y","Y","Y","Y","-","M","M","-","D","D">>

FormatPatterns == PatternsUpTo(MaxCodes) \cup {IsoPattern}

-----------------------------------------------------------------------------
(* query and the result lists *)

Ico == "obsidian_icon.png"

\* a result record without and with a JsonRPCAction; the texts of Title and
\* SubTitle are kept as the tuple of the words and values they are formatted from
Item(title, subtitle) == [Title |-> title, SubTitle |-> subtitle, IcoPath |-> Ico]
ItemWithAction(title, subtitle, method, parameters) ==
    [Title |-> title, SubTitle |-> subtitle, IcoPath |-> Ico,
     JsonRPCAction |-> [method |-> method, parameters |-> parameters]]

\* what a function of the plugin hands back: a list, Python's None, or an
\* exception that leaves it
ListOf(items) == [kind |-> "list", items |-> items]
PyNone == [kind |-> "None", items |-> <<>>]
Raised == [kind |-> "raised", items |-> <<>>]

\* ' '.join(words)
RECURSIVE JoinSpace(_)
JoinSpace(words) ==
    IF words = <<>> THEN <<>>
    ELSE IF Len(words) = 1 THEN words[1]
    ELSE words[1] \o <<" ">> \o JoinSpace(Tail(words))

\* str.split(): the maximal runs of characters that are not blanks
RECURSIVE SplitWords(_)
SplitWords(s) ==
    IF s = <<>> THEN <<>>
    ELSE IF s[1] = " " THEN SplitWords(Tail(s))
    ELSE LET n == IF \E i \in 1..Len(s) : s[i] = " "
                  THEN (CHOOSE i \in 1..Len(s) : s[i] = " " /\ \A j \in 1..(i - 1) : s[j] # " ") - 1
                  ELSE Len(s)
         IN  <<SubSeq(s, 1, n)>> \o SplitWords(SubSeq(s, n + 1, Len(s)))

\* str.strip()
RECURSIVE Strip(_)
Strip(s) ==
    IF s = <<>> THEN s
    ELSE IF s[1] = " " THEN Strip(Tail(s))
    ELSE IF s[Len(s)] = " " THEN Strip(SubSeq(s, 1, Len(s) - 1))
    ELSE s

\* self.known_commands
known_commands ==
    << <<"o","p","e","n">>, <<"s","e","a","r","c","h">>, <<"n","e","w">>, <<"v","a","u","l","t">>,
       <<"d","a","i","l","y">>, <<"r","e","c","e","n","t">>, <<"v","a","u","l","t","s">>,
       <<"h","e","l","p">> >>

CmdOpen == known_commands[1]
CmdSearch == known_commands[2]
CmdNew == known_commands[3]
CmdVault == known_commands[4]
CmdDaily == known_commands[5]
CmdRecent == known_commands[6]
CmdVaults == known_commands[7]
CmdHelp == known_commands[8]

\* the note a user keeps in a vault
HiMd == <<"H", "i", ".", "m", "d">>

\* the paths of a vault that hold a file in some state of the launcher's runs:
\* the user's note, the names create_new_note gives to title "n", today's
\* daily note; in the order os.walk lists them
MainFileOrder ==
    << <<HiMd>> >> \o [k \in 1..(MaxNotes + 1) |-> Candidate(TitleN, k - 1)]
    \o << NotePath(Daily, DateStr(StartTime)) >>

MainPaths == VPaths \cup {<<HiMd>>}

\* what os.walk finds in a vault; every file was last written at StartTime
ListingOf(fs) ==
    LET present == SelectSeq(MainFileOrder, LAMBDA p : fs[p].kind = "file")
    IN  [i \in 1..Len(present) |->
            [dir |-> Parent(present[i]), file |-> Basename(present[i]),
             content |-> fs[present[i]].content, mtime |-> StartTime, fault |-> "none"]]

\* get_vault_info(vault['path']) on the files of the vault; the vaults of the
\* launcher's runs have no .obsidian/config
InfoOf(files, vault) == get_vault_info(ListingOf(files[vault.path]), "absent")

\* show_vaults
show_vaults(vs, files) ==
    ListOf([i \in 1..Len(vs) |->
               ItemWithAction(<<"vault", vs[i].name>>,
                              <<"notes", InfoOf(files, vs[i]).note_count, vs[i].path>>,
                              "open_vault", <<vs[i].path>>)])

\* the commands show_commands lists
ShownCommands == <<CmdVaults, CmdSearch, CmdNew, CmdDaily, CmdRecent, CmdVault, CmdOpen>>

\* show_commands
show_commands ==
    ListOf([i \in 1..Len(ShownCommands) |->
               ItemWithAction(<<"obs", ShownCommands[i]>>, <<"description", ShownCommands[i]>>,
                              "execute_command", <<ShownCommands[i]>>)])

SearchLimit == 5
GeneralLimit == 3
GeneralMax == 10
TopVaults == 5

\* the records the search branches make of the hits of every vault, in the
\* order of self.vaults; only the search command puts the preview in SubTitle
RECURSIVE HitItems(_, _, _, _, _)
HitItems(vs, files, text, lim, withPreview) ==
    IF vs = <<>> THEN <<>>
    ELSE LET vault == Head(vs)
             hits == search_notes(ListingOf(files[vault.path]), text, lim)
         IN  [i \in 1..Len(hits) |->
                 ItemWithAction(<<"note", hits[i].title>>,
                                IF withPreview
                                THEN <<"in", vault.name, hits[i].mtime, hits[i].preview>>
                                ELSE <<"in", vault.name, hits[i].mtime>>,
                                "open_note", <<vault.path \o hits[i].path>>)]
             \o HitItems(Tail(vs), files, text, lim, withPreview)

\* the main interface: lines 639-681
MainInterface(vs, files, running) ==
    ListOf(<< ItemWithAction(<<"Obsidian Notes", running>>, <<"vaults found", Len(vs)>>,
                             "show_commands", <<>>) >>
           \o (IF vs # <<>>
               THEN << ItemWithAction(<<"Open Vaults">>, <<"Show all", Len(vs)>>, "show_vaults", <<>>) >>
                    \o [i \in 1..Len(Slice(vs, TopVaults)) |->
                           ItemWithAction(<<"vault", vs[i].name>>,
                                          <<"notes", InfoOf(files, vs[i]).note_count, vs[i].path>>,
                                          "open_vault", <<vs[i].path>>)]
               ELSE <<>>))

\* command "search": lines 692-717
SearchCommand(vs, files, args) ==
    IF args # <<>> /\ vs # <<>>
    THEN LET all_results == HitItems(vs, files, args, SearchLimit, TRUE)
         IN  IF all_results # <<>> THEN ListOf(all_results)
             ELSE ListOf(<<Item(<<"No results for", args>>, <<"Try different keywords">>)>>)
    ELSE ListOf(<<Item(<<"Search Notes">>, <<"Usage: obs search [query]">>)>>)

\* command "new": lines 719-744; the files of the first vault it leaves
NewCommand(vs, files, args, t, w) ==
    IF args # <<>> /\ vs # <<>>
    THEN LET vault == vs[1]
             r == create_new_note(files[vault.path], args, t, w)
         IN  [files |-> [files EXCEPT ![vault.path] = r.fs],
              ret |-> IF r.path # None
                      THEN ListOf(<<ItemWithAction(<<"Note Created", args>>, <<"in", vault.name, r.rel>>,
                                                   "open_note", <<vault.path \o r.rel>>)>>)
                      ELSE ListOf(<<Item(<<"Failed to create note">>, <<"Check vault permissions">>)>>)]
    ELSE [files |-> files,
          ret |-> ListOf(<<Item(<<"Create New Note">>, <<"Usage: obs new [title]">>)>>)]

\* the command "daily" writing into the first vault however many are known
DailyInFirstVault(vs, files, t, w) ==
    IF vs = <<>>
    THEN [files |-> files,
          ret |-> ListOf(<<Item(<<"No vaults found">>, <<"Create an Obsidian vault first">>)>>)]
    ELSE LET vault == vs[1]
             r == create_daily_note(files[vault.path], NoConfig, None, t, w)
         IN  [files |-> [files EXCEPT ![vault.path] = r.fs],
              ret |-> IF r.kind = "raised" THEN Raised
                      ELSE IF r.kind = "ok"
                      THEN ListOf(<<ItemWithAction(<<"Daily Note Created">>, <<"in", vault.name, r.rel>>,
                                                   "open_note", <<vault.path \o r.rel>>)>>)
                      ELSE ListOf(<<Item(<<"Failed to create daily note">>, <<"Check vault permissions">>)>>)]

\* command "daily": lines 746-793
DailyCommand(vs, files, t, w) ==
    IF vs = <<>>
    THEN [files |-> files,
          ret |-> ListOf(<<Item(<<"No vaults found">>, <<"Create an Obsidian vault first">>)>>)]
    ELSE IF Len(vs) = 1
    THEN LET vault == vs[1]
             r == create_daily_note(files[vault.path], NoConfig, None, t, w)
         IN  [files |-> [files EXCEPT ![vault.path] = r.fs],
              ret |-> IF r.kind = "raised" THEN Raised
                      ELSE IF r.kind = "ok"
                      THEN ListOf(<<ItemWithAction(<<"Daily Note Created">>, <<"in", vault.name, r.rel>>,
                                                   "open_note", <<vault.path \o r.rel>>)>>)
                      ELSE ListOf(<<Item(<<"Failed to create daily note">>, <<"Check vault permissions">>)>>)]
    ELSE [files |-> files,
          ret |-> ListOf(<<Item(<<"Create Daily Note In:">>, <<"Choose which vault">>)>>
                         \o [i \in 1..Len(vs) |->
                                ItemWithAction(<<"note", vs[i].name>>, <<"Create daily note in", vs[i].name>>,
                                               "create_daily_note_in_vault", <<vs[i].path>>)])]

\* command "vault": lines 795-814
VaultCommand(vs, files, args) ==
    IF args # <<>>
    THEN IF \E i \in DOMAIN vs : Contains(Lower(vs[i].name), Lower(args))
         THEN LET i == CHOOSE k \in DOMAIN vs :
                           /\ Contains(Lower(vs[k].name), Lower(args))
                           /\ \A j \in 1..(k - 1) : ~Contains(Lower(vs[j].name), Lower(args))
              IN  ListOf(<<ItemWithAction(<<"Open", vs[i].name>>, <<"Open vault:", vs[i].path>>,
                                          "open_vault", <<vs[i].path>>)>>)
         ELSE ListOf(<<Item(<<"Vault not found:", args>>, <<"Use 'obs vaults'">>)>>)
    ELSE show_vaults(vs, files)

\* command "recent": lines 827-856
RecentCommand(vs, files) ==
    IF vs # <<>>
    THEN LET vault == vs[1]
             recent == Slice(InfoOf(files, vault).recent_notes, RecentMax)
         IN  IF recent # <<>>
             THEN ListOf([i \in 1..Len(recent) |->
                             ItemWithAction(<<"recent", DropLast3(Basename(recent[i][1]))>>,
                                            <<"in", vault.name, recent[i][2]>>,
                                            "open_note", <<vault.path \o recent[i][1]>>)])
             ELSE ListOf(<<Item(<<"No recent notes found">>, <<"Start creating notes">>)>>)
    ELSE ListOf(<<Item(<<"No vaults found">>, <<"Create an Obsidian vault first">>)>>)

\* the else branch of line 858: a search for the whole query in every vault
GeneralSearch(vs, files, query_str) ==
    IF vs # <<>>
    THEN LET all_results == HitItems(vs, files, query_str, GeneralLimit, FALSE)
         IN  IF all_results # <<>> THEN ListOf(Slice(all_results, GeneralMax))
             ELSE ListOf(<<Item(<<"No notes found for", query_str>>, <<"Try different keywords">>)>>)
    ELSE ListOf(<<Item(<<"No vaults found">>, <<"Create an Obsidian vault first">>)>>)

\* what main hands to query: the list of parameters, or '' when it is empty
QueryParam(parameters) ==
    IF parameters # <<>> THEN [kind |-> "list", value |-> parameters]
    ELSE [kind |-> "str", value |-> <<>>]

\* lines 628-633: a list is joined with blanks, a string is stripped
QueryStr(query_param) ==
    IF query_param.kind = "list" THEN JoinSpace(query_param.value)
    ELSE Strip(query_param.value)

\* query, after refresh_vaults_cache: the files it leaves and what it returns.
\* The chain of lines 689-856 has a branch for every known command but
\* "help"; for "help" the function ends without a return statement.
plugin_query(vs, files, query_param, t, w, running) ==
    LET query_str == QueryStr(query_param)
        parts == SplitWords(query_str)
        command == Lower(parts[1])
        args == JoinSpace(Tail(parts))
        same(r) == [files |-> files, ret |-> r]
    IN  IF parts = <<>> THEN same(MainInterface(vs, files, running))
        ELSE IF \E i \in DOMAIN known_commands : known_commands[i] = command
        THEN CASE command = CmdVaults -> same(show_vaults(vs, files))
               [] command = CmdSearch -> same(SearchCommand(vs, files, args))
               [] command = CmdNew -> NewCommand(vs, files, args, t, w)
               [] command = CmdDaily -> DailyCommand(vs, files, t, w)
               [] command = CmdVault -> same(VaultCommand(vs, files, args))
               [] command = CmdOpen ->
                      same(ListOf(<<ItemWithAction(<<"Launch Obsidian">>, <<"Open Obsidian application">>,
                                                   "launch_obsidian", <<>>)>>))
               [] command = CmdRecent -> same(RecentCommand(vs, files))
               [] OTHER -> same(PyNone)
        ELSE same(GeneralSearch(vs, files, query_str))

-----------------------------------------------------------------------------
(* main: one run of the launcher *)

LaunchCommand == <<"l","a","u","n","c","h","_","o","b","s","i","d","i","a","n">>

\* execute_command: launch_obsidian() answers whether the desktop could open
\* the obsidian:// URI
execute_command(command, ext) ==
    IF command = LaunchCommand
    THEN IF ext THEN ListOf(<<Item(<<"Obsidian Launched">>, <<"Obsidian is now running">>)>>)
         ELSE ListOf(<<Item(<<"Failed to launch Obsidian">>, <<"Check if Obsidian is installed">>)>>)
    ELSE ListOf(<<Item(<<"Command Executed:", command>>, <<"Executed", command>>)>>)

\* launch_obsidian(vault_path): False for a path that is not a listed vault
\* and when opening raises
launch_obsidian(vs, vault_path, ext) ==
    IF vault_path # <<>>
    THEN (\E i \in DOMAIN vs : vs[i].path = vault_path) /\ ext
    ELSE ext

\* open_vault
open_vault(vs, vault_path, ext) ==
    LET vault_name == IF vault_path = <<>> THEN <<>> ELSE Basename(vault_path)
    IN  IF launch_obsidian(vs, vault_path, ext)
        THEN ListOf(<<Item(<<"Opened Vault:", vault_name>>, <<"Vault path:", vault_path>>)>>)
        ELSE ListOf(<<Item(<<"Failed to open vault:", vault_name>>, <<"Check vault path and permissions">>)>>)

\* create_daily_note_in_vault: the files it leaves and what it returns
create_daily_note_in_vault(vs, files, vault_path, t, w) ==
    LET vault_name == IF \E i \in DOMAIN vs : vs[i].path = vault_path
                      THEN (CHOOSE v \in {vs[i] : i \in DOMAIN vs} : v.path = vault_path).name
                      ELSE <<"Unknown Vault">>
        r == create_daily_note(files[vault_path], NoConfig, None, t, w)
    IN  [files |-> [files EXCEPT ![vault_path] = r.fs],
         ret |-> IF r.kind = "raised" THEN Raised
                 ELSE IF r.kind = "ok"
                 THEN ListOf(<<Item(<<"Daily Note Created in", vault_name>>, <<"in", vault_name, r.rel>>)>>)
                 ELSE ListOf(<<Item(<<"Failed to create daily note">>, <<"Check vault permissions">>)>>)]

\* the list of the except clause of lines 995-1001
error_result == ListOf(<<Item(<<"Obsidian Plugin Error">>, <<"Error:">>)>>)

\* the first parameter, or ''
FirstParam(parameters) == IF parameters # <<>> THEN parameters[1] ELSE <<>>

\* what a run has put on standard output: nothing, or one {"result": value};
\* an exception inside the try is answered with error_result
Printed(value) == IF value.kind = "raised" THEN <<[result |-> error_result]>> ELSE <<[result |-> value]>>

NotCalled == [kind |-> "not called", items |-> <<>>]

\* the attributes of the plugin object line 984 finds that are not handled
\* by a branch of their own: two methods and a data attribute
OtherAttributes == {"find_vaults", "refresh_vaults_cache", "known_commands"}

\* the body of main after the plugin object was constructed: the files it
\* leaves, what it printed, and what query returned if it was called.
\* vs0 is self.vaults as the constructor left it, vs is self.vaults after the
\* refresh_vaults_cache of query.
main_try(request, vs0, vs, files, t, w, running, ext) ==
    LET fromQuery(q) == [files |-> q.files, printed |-> Printed(q.ret), qret |-> q.ret]
        plain(r) == [files |-> files, printed |-> Printed(r), qret |-> NotCalled]
        method == request.method
        parameters == request.parameters
    IN  IF request.argv = "none"
        THEN fromQuery(plugin_query(vs, files, [kind |-> "str", value |-> <<>>], t, w, running))
        ELSE IF request.argv # "object"
        THEN plain(Raised)   \* json.loads or request.get raises
        ELSE CASE method = "query" ->
                      fromQuery(plugin_query(vs, files, QueryParam(parameters), t, w, running))
               [] method = "show_commands" -> plain(show_commands)
               [] method = "show_vaults" -> plain(show_vaults(vs0, files))
               [] method = "execute_command" -> plain(execute_command(FirstParam(parameters), ext))
               [] method = "open_vault" -> plain(open_vault(vs0, FirstParam(parameters), ext))
               [] method = "open_note" ->
                      plain(ListOf(<<IF ext
                                     THEN Item(<<"Note Opened">>, <<Basename(FirstParam(parameters))>>)
                                     ELSE Item(<<"Failed to open note">>, <<"Check note path">>)>>))
               [] method = "create_daily_note_in_vault" ->
                      LET r == create_daily_note_in_vault(vs0, files, FirstParam(parameters), t, w)
                      IN  [files |-> r.files, printed |-> Printed(r.ret), qret |-> NotCalled]
               [] method = "launch_obsidian" -> plain(execute_command(LaunchCommand, ext))
               [] method = "find_vaults" -> plain(ListOf(vs))
               [] method = "refresh_vaults_cache" -> plain(PyNone)
               [] method = "known_commands" -> plain(Raised)   \* a list is not callable
               [] OTHER -> [files |-> files, printed |-> <<>>, qret |-> NotCalled]

Blank == <<" ">>
WordHi == <<"h", "i">>
WordZz == <<"z", "z">>

\* the query strings the launcher is run with: nothing, each command word
\* alone and with an argument, free text, blanks
QueryStrings ==
    { <<>>, Blank, WordHi, WordZz,
      CmdHelp, <<"H","e","l","p">> \o Blank \o WordHi,
      CmdVaults, CmdSearch, CmdSearch \o Blank \o WordHi, CmdSearch \o Blank \o WordZz,
      CmdNew, CmdNew \o Blank \o TitleN, CmdDaily,
      CmdVault, CmdVault \o Blank \o <<"b">>, CmdVault \o Blank \o WordZz,
      CmdOpen, CmdRecent }

Request(method, parameters) == [argv |-> "object", method |-> method, parameters |-> parameters]

\* the command lines of the runs: no argument, an argument that is not JSON
\* or not an object, and requests for the methods main knows, for other
\* attributes of the plugin object and for a name that is none
Requests ==
    { [argv |-> a, method |-> "", parameters |-> <<>>] : a \in {"none", "not_json", "not_object"} }
    \cup { Request("query", IF q = <<>> THEN <<>> ELSE <<q>>) : q \in QueryStrings }
    \cup { Request(m, <<>>) : m \in {"show_commands", "show_vaults", "launch_obsidian", "nope"}
                                      \cup OtherAttributes }
    \cup { Request("execute_command", ps) : ps \in {<<>>, <<LaunchCommand>>, <<CmdDaily>>} }
    \cup { Request("open_vault", ps) : ps \in {<<DirA>>, <<DirB>>} }
    \cup { Request("open_note", ps) : ps \in {<<DirA \o <<HiMd>>>>} }
    \cup { Request("create_daily_note_in_vault", ps) : ps \in {<<DirA>>, <<DirB>>} }

\* the folders whose files the runs read and write
MainVaults == {DirA, DirB}

\* the files before the first run: A holds a note of the user's, B is empty
MainVaultFiles ==
    [v \in MainVaults |-> [p \in MainPaths |-> IF v = DirA /\ p = <<HiMd>> THEN File(WordHi) ELSE Absent]]

\* no function call is under study
CallIdle ==
    /\ call = <<>>
    /\ ret = <<>>

\* the launcher is not being run
NoVaultFiles == vfs = <<>>

-----------------------------------------------------------------------------
(* The plugin object *)

cache_duration == 300

NoLookup == [done |-> FALSE, t0 |-> 0, t |-> 0, rescanned |-> FALSE]

Init ==
    /\ pc = "start"
    /\ now = StartTime
    /\ dirs = Skeleton
    /\ registry \in RegistryChoices
    /\ regfile = "map"
    /\ vaults = <<>>
    /\ vaults_cache = {}
    /\ cache_timestamp = 0
    /\ lastScan = 0
    /\ lookup = NoLookup
    /\ SearchIdle
    /\ DailyIdle
    /\ CallIdle
    /\ NoVaultFiles

\* ObsidianPlugin.__init__
Construct ==
    /\ pc = "start"
    /\ IF RegistryRaises(regfile)
       THEN \* the exception leaves find_vaults and __init__: there is no object
            /\ pc' = "crashed"
            /\ UNCHANGED <<vaults, lastScan, vaults_cache, cache_timestamp>>
       ELSE /\ LET reg == registered_vaults(regfile, registry)
               IN  \E pathOrder \in Orderings(SearchPaths(dirs, reg)), ord \in ListingOrders :
                      vaults' = find_vaults(dirs, reg, pathOrder, ord)
            /\ pc' = "ready"
            /\ lastScan' = now
            \* lines 19-20 run after find_vaults and overwrite what it cached
            /\ vaults_cache' = {}
            /\ cache_timestamp' = 0
    /\ UNCHANGED <<now, dirs, registry, regfile, lookup>>
    /\ UNCHANGED <<searchVars, dailyVars, callVars, vfs>>

\* refresh_vaults_cache, as called at the start of query
RefreshVaultsCache ==
    /\ pc = "ready"
    /\ IF now - cache_timestamp > cache_duration
       THEN /\ \E pathOrder \in Orderings(SearchPaths(dirs, registry)), ord \in ListingOrders :
                  vaults' = find_vaults(dirs, registry, pathOrder, ord)
            /\ vaults_cache' = PathsOf(vaults')
            /\ cache_timestamp' = now
            /\ lastScan' = now
       ELSE UNCHANGED <<vaults, vaults_cache, cache_timestamp, lastScan>>
    /\ lookup' = [done |-> TRUE, t0 |-> lastScan, t |-> now,
                  rescanned |-> now - cache_timestamp > cache_duration]
    /\ UNCHANGED <<pc, now, dirs, registry, regfile>>
    /\ UNCHANGED <<searchVars, dailyVars, callVars, vfs>>

\* the clock advances
Tick ==
    /\ \E d \in TickSteps :
          /\ now + d <= StartTime + MaxElapsed
          /\ now' = now + d
    /\ UNCHANGED <<pc, dirs, registry, regfile, vaults, vaults_cache, cache_timestamp, lastScan, lookup>>
    /\ UNCHANGED <<searchVars, dailyVars, callVars, vfs>>

\* another program creates a directory
MkDir ==
    /\ \E p \in Toggle \ dirs :
          /\ Parent(p) \in dirs
          /\ dirs' = dirs \cup {p}
    /\ UNCHANGED <<pc, now, registry, regfile, vaults, vaults_cache, cache_timestamp, lastScan, lookup>>
    /\ UNCHANGED <<searchVars, dailyVars, callVars, vfs>>

\* another program removes an empty directory
RmDir ==
    /\ \E p \in Toggle \cap dirs :
          /\ ~\E q \in dirs : q # p /\ IsPrefix(p, q)
          /\ dirs' = dirs \ {p}
    /\ UNCHANGED <<pc, now, registry, regfile, vaults, vaults_cache, cache_timestamp, lastScan, lookup>>
    /\ UNCHANGED <<searchVars, dailyVars, callVars, vfs>>

Next == Construct \/ RefreshVaultsCache \/ Tick \/ MkDir \/ RmDir

Spec == Init /\ [][Next]_vars

-----------------------------------------------------------------------------
(* Discovery on its own: find_vaults, as run by the constructor, on every tree *)

InitDiscover ==
    /\ pc = "start"
    /\ now = StartTime
    /\ dirs \in Trees
    /\ regfile \in RegistryShapes
    /\ registry \in (IF regfile = "map" THEN RegistryChoices ELSE {{}})
    /\ vaults = <<>>
    /\ vaults_cache = {}
    /\ cache_timestamp = 0
    /\ lastScan = 0
    /\ lookup = NoLookup
    /\ SearchIdle
    /\ DailyIdle
    /\ CallIdle
    /\ NoVaultFiles

NextDiscover == Construct

SpecDiscover == InitDiscover /\ [][NextDiscover]_vars

-----------------------------------------------------------------------------
(* search_notes on its own, on every listing *)

InitSearch ==
    /\ notes \in Listings
    /\ query \in Queries
    /\ limit \in 0..MaxLimit
    /\ results = <<>>
    /\ spc = "call"
    /\ pc = "start"
    /\ now = StartTime
    /\ dirs = Skeleton
    /\ registry = {}
    /\ regfile = "map"
    /\ vaults = <<>>
    /\ vaults_cache = {}
    /\ cache_timestamp = 0
    /\ lastScan = 0
    /\ lookup = [done |-> FALSE, t0 |-> 0, t |-> 0, rescanned |-> FALSE]
    /\ DailyIdle
    /\ CallIdle
    /\ NoVaultFiles

\* one call of search_notes
SearchNotes ==
    /\ spc = "call"
    /\ results' = search_notes(notes, query, limit)
    /\ spc' = "done"
    /\ UNCHANGED <<notes, query, limit>>
    /\ UNCHANGED <<discVars, dailyVars, callVars, vfs>>

NextSearch == SearchNotes

SpecSearch == InitSearch /\ [][NextSearch]_vars

-----------------------------------------------------------------------------
(* create_daily_note on its own *)

InitDaily ==
    /\ dfs \in DailyVaults
    /\ dconfig \in DailyConfigs
    /\ writable \in BOOLEAN
    /\ dret = NoCall
    /\ dprev = Brief(NoCall)
    /\ SearchIdle
    /\ CallIdle
    /\ pc = "start"
    /\ now = StartTime
    /\ dirs = Skeleton
    /\ registry = {}
    /\ regfile = "map"
    /\ vaults = <<>>
    /\ vaults_cache = {}
    /\ cache_timestamp = 0
    /\ lastScan = 0
    /\ lookup = [done |-> FALSE, t0 |-> 0, t |-> 0, rescanned |-> FALSE]
    /\ NoVaultFiles

\* one call of create_daily_note
CreateDailyNote ==
    /\ \E titleArg \in {None, TitleN} :
          LET r == create_daily_note(dfs, dconfig, titleArg, now, writable)
          IN  /\ dfs' = r.fs
              /\ dret' = [kind |-> r.kind, path |-> r.path, rel |-> r.rel, title |-> r.title,
                          target |-> r.target, existed |-> r.existed, changed |-> r.fs # dfs,
                          folderFailed |-> r.folderFailed, writeFailed |-> r.writeFailed,
                          at |-> now]
              /\ dprev' = Brief(dret)
    /\ UNCHANGED <<dconfig, writable>>
    /\ UNCHANGED <<discVars, searchVars, callVars, vfs>>

\* the permissions of the vault change
SetWritable ==
    /\ writable' = ~writable
    /\ UNCHANGED <<dfs, dconfig, dret, dprev>>
    /\ UNCHANGED <<discVars, searchVars, callVars, vfs>>

NextDaily == CreateDailyNote \/ SetWritable \/ Tick

SpecDaily == InitDaily /\ [][NextDaily]_vars

-----------------------------------------------------------------------------
(* obsidian_to_python_format on its own, on every pattern *)

\* every variable outside callVars at rest
OthersIdle ==
    /\ pc = "start"
    /\ now = StartTime
    /\ dirs = Skeleton
    /\ registry = {}
    /\ regfile = "map"
    /\ vaults = <<>>
    /\ vaults_cache = {}
    /\ cache_timestamp = 0
    /\ lastScan = 0
    /\ lookup = NoLookup
    /\ SearchIdle
    /\ DailyIdle

InitFormat ==
    /\ call \in {[fn |-> "obsidian_to_python_format", arg |-> p, done |-> FALSE] : p \in FormatPatterns}
    /\ ret = <<>>
    /\ OthersIdle
    /\ NoVaultFiles

\* one call of obsidian_to_python_format
ObsidianToPythonFormat ==
    /\ call.fn = "obsidian_to_python_format"
    /\ ~call.done
    /\ ret' = obsidian_to_python_format(call.arg)
    /\ call' = [call EXCEPT !.done = TRUE]
    /\ UNCHANGED <<discVars, searchVars, dailyVars, vfs>>

NextFormat == ObsidianToPythonFormat

SpecFormat == InitFormat /\ [][NextFormat]_vars

-----------------------------------------------------------------------------
(* get_vault_info on its own, on every listing *)

InitInfo ==
    /\ call \in {[fn |-> "get_vault_info", ns |-> ns, cfg |-> cfg, done |-> FALSE] :
                    ns \in InfoListings, cfg \in ConfigStates}
    /\ ret = <<>>
    /\ OthersIdle
    /\ NoVaultFiles

\* one call of get_vault_info
GetVaultInfo ==
    /\ call.fn = "get_vault_info"
    /\ ~call.done
    /\ ret' = get_vault_info(call.ns, call.cfg)
    /\ call' = [call EXCEPT !.done = TRUE]
    /\ UNCHANGED <<discVars, searchVars, dailyVars, vfs>>

NextInfo == GetVaultInfo

SpecInfo == InitInfo /\ [][NextInfo]_vars

-----------------------------------------------------------------------------
(* create_new_note on its own *)

InitNew ==
    /\ dfs \in NewVaults
    /\ dconfig = NoConfig
    /\ writable \in BOOLEAN
    /\ dret = NoCall
    /\ dprev = Brief(NoCall)
    /\ SearchIdle
    /\ CallIdle
    /\ pc = "start"
    /\ now = StartTime
    /\ dirs = Skeleton
    /\ registry = {}
    /\ regfile = "map"
    /\ vaults = <<>>
    /\ vaults_cache = {}
    /\ cache_timestamp = 0
    /\ lastScan = 0
    /\ lookup = NoLookup
    /\ NoVaultFiles

\* one call of create_new_note
CreateNewNote ==
    /\ \E title \in NewTitles :
          /\ HasFree(dfs, Sanitize(title))
          /\ LET r == create_new_note(dfs, title, now, writable)
             IN  /\ dfs' = r.fs
                 /\ call' = [fn |-> "create_new_note", title |-> title, before |-> dfs]
                 /\ ret' = [path |-> r.path, rel |-> r.rel]
    /\ UNCHANGED <<dconfig, writable, dret, dprev>>
    /\ UNCHANGED <<discVars, searchVars, vfs>>

NextNew == CreateNewNote \/ SetWritable

SpecNew == InitNew /\ [][NextNew]_vars

-----------------------------------------------------------------------------
(* open_note on its own *)

InitOpen ==
    /\ call \in {[fn |-> "open_note", note_path |-> n, done |-> FALSE] : n \in OpenNotePaths}
    /\ ret = <<>>
    /\ pc = "ready"
    /\ now = StartTime
    /\ dirs = Skeleton
    /\ registry = {}
    /\ regfile = "map"
    /\ vaults \in OpenVaultLists
    /\ vaults_cache = {}
    /\ cache_timestamp = 0
    /\ lastScan = 0
    /\ lookup = NoLookup
    /\ SearchIdle
    /\ DailyIdle
    /\ NoVaultFiles

\* one call of open_note
OpenNote ==
    /\ call.fn = "open_note"
    /\ ~call.done
    /\ ret' = open_note(vaults, call.note_path)
    /\ call' = [call EXCEPT !.done = TRUE]
    /\ UNCHANGED <<discVars, searchVars, dailyVars, vfs>>

NextOpen == OpenNote

SpecOpen == InitOpen /\ [][NextOpen]_vars

-----------------------------------------------------------------------------
(* The launcher as the host runs it: one process per request *)

\* the trees of the runs: A and B may each be a vault
MainTrees == {Skeleton \cup S : S \in SUBSET {DirA \o <<Marker>>, DirB \o <<Marker>>}}

InitMain ==
    /\ pc = "start"
    /\ now = StartTime
    /\ dirs \in MainTrees
    /\ regfile \in {"map", "vaults_not_map"}
    /\ registry \in (IF regfile = "map" THEN {{}, {[id |-> "v1", path |-> DirA]}} ELSE {{}})
    /\ vaults = <<>>
    /\ vaults_cache = {}
    /\ cache_timestamp = 0
    /\ lastScan = 0
    /\ lookup = NoLookup
    /\ SearchIdle
    /\ dfs = [p \in DPaths |-> Absent]
    /\ dconfig = NoConfig
    /\ writable \in BOOLEAN
    /\ dret = NoCall
    /\ dprev = Brief(NoCall)
    /\ CallIdle
    /\ vfs = MainVaultFiles

\* the lists find_vaults can return on the tree, over the orders in which the
\* search paths and the directory entries are enumerated
FoundLists(fsd, reg) ==
    {find_vaults(fsd, reg, pathOrder, ord) :
        pathOrder \in Orderings(SearchPaths(fsd, reg)), ord \in ListingOrders}

\* the first word of the query a request carries
CommandOf(request) ==
    LET ws == SplitWords(QueryStr(QueryParam(request.parameters)))
    IN  IF ws = <<>> THEN <<>> ELSE Lower(ws[1])

\* whether the run asks whether Obsidian is running (the main interface), and
\* whether it asks the desktop to open something
AsksRunning(request) == request.argv = "none" \/ (request.method = "query" /\ CommandOf(request) = <<>>)
AsksDesktop(request) ==
    request.method \in {"execute_command", "open_vault", "open_note", "launch_obsidian"}

\* one run of the program: the constructor, then the body of main.  The
\* plugin object lives for the run only; the files stay.
\* call.known is len(self.vaults) of the run.
Main ==
    /\ call = <<>>
    /\ IF RegistryRaises(regfile)
       THEN \* line 933 is outside the try: the run ends with a traceback
            \E request \in Requests :
               /\ call' = [request |-> request, done |-> TRUE, known |-> 0]
               /\ ret' = [printed |-> <<>>, qret |-> NotCalled, exit |-> "traceback"]
               /\ vfs' = vfs
       ELSE \* cache_timestamp is 0 after the constructor, so the refresh of
            \* query scans again; within one run both scans enumerate alike
            \E vs0 \in FoundLists(dirs, registered_vaults(regfile, registry)) :
               \E request \in Requests :
                  \E running \in (IF AsksRunning(request) THEN BOOLEAN ELSE {FALSE}),
                     ext \in (IF AsksDesktop(request) THEN BOOLEAN ELSE {TRUE}) :
                     /\ (request.method = "query" /\ CommandOf(request) = CmdNew /\ vs0 # <<>>) =>
                            HasFree(vfs[vs0[1].path], TitleN)
                     /\ \E r \in {main_try(request, vs0, vs0, vfs, now, writable, running, ext)} :
                           /\ call' = [request |-> request, done |-> TRUE, known |-> Len(vs0)]
                           /\ ret' = [printed |-> r.printed, qret |-> r.qret, exit |-> "ok"]
                           /\ vfs' = r.files
    /\ UNCHANGED <<discVars, searchVars, dailyVars>>

\* the host has read the output of the run; the next run can start
HostReads ==
    /\ call # <<>>
    /\ call' = <<>>
    /\ ret' = <<>>
    /\ UNCHANGED <<discVars, searchVars, dailyVars, vfs>>

NextMain == Main \/ HostReads \/ SetWritable

SpecMain == InitMain /\ [][NextMain]_vars

-----------------------------------------------------------------------------
(* Claims about the vault cache and about discovery *)

\* d is reached from search root r by descending only through directories
\* whose names are neither hidden nor on the deny-list
CleanReach(r, d) ==
    /\ IsPrefix(r, d)
    /\ \A i \in (Len(r) + 1)..Len(d) : ~StartsWithDot(d[i]) /\ d[i] \notin ExcludedNames

\* the directories that directly contain the marker subdirectory
VaultDirs(fsd) == {d \in fsd : (d \o <<Marker>>) \in fsd}

\* the vaults a complete discovery pass has to return
ExpectedVaults(fsd, reg) ==
    {d \in VaultDirs(fsd) : \E r \in SearchPaths(fsd, reg) : CleanReach(r, d)}

\* C1: a lookup made at most cache_duration seconds after the last discovery
\* pass does not rescan, and a lookup made later than that rescans; this is
\* so for every lookup, the first one after construction included.
CacheTTL ==
    lookup.done => ((lookup.t - lookup.t0 <= cache_duration) <=> ~lookup.rescanned)

\* C2: the vaults find_vaults returns are exactly the directories that hold
\* the marker subdirectory and are reachable from a search root through
\* non-excluded directories.
DiscoveryComplete ==
    pc = "ready" => PathsOf(vaults) = ExpectedVaults(dirs, registry)

\* C3: no two records of the list find_vaults returns have the same path.
NoDuplicatePaths ==
    \A i, j \in 1..Len(vaults) : vaults[i].path = vaults[j].path => i = j

\* C3 witness: discovery has returned a vault that the walks of two search
\* roots (the profile and its Documents folder) both reach.
DuplicateReachWitness ==
    /\ pc = "ready"
    /\ VaultDirs(dirs) = {DirB}
    /\ {BaseProfile, DirDocuments} \subseteq SearchPaths(dirs, registry)
    /\ PathsOf(vaults) = {DirB}

\* C4: for a tree containing vaultRoot/.obsidian/fake/.obsidian, searched from
\* roots that lie outside hidden directories, find_vaults reports vaultRoot
\* and does not report vaultRoot/.obsidian/fake.
MarkerExclusion ==
    ( /\ pc = "ready"
      /\ (DirFake \o <<Marker>>) \in dirs
      /\ \A r \in SearchPaths(dirs, registry) : CleanReach(BaseProfile, r) )
    => (DirA \in PathsOf(vaults) /\ DirFake \notin PathsOf(vaults))

\* the walk never descends into a hidden directory: every reported vault is
\* reached from a search root through non-hidden, non-excluded directories
NeverDescendsHidden ==
    pc = "ready" =>
        \A v \in PathsOf(vaults) : \E r \in SearchPaths(dirs, registry) : CleanReach(r, v)

-----------------------------------------------------------------------------
(* Claims about search_notes *)

PathOfNote(n) == n.dir \o <<n.file>>

\* the position in the walk of the file a hit was made from
WalkIndex(r) == CHOOSE i \in 1..Len(notes) : PathOfNote(notes[i]) = r.path

TitleHas(n) == Contains(Lower(DropLast3(n.file)), Lower(query))
ContentHas(n) == Contains(Lower(n.content), Lower(query))

\* a readable .md file outside hidden directories that matches the query
Qualifies(n) ==
    /\ \A k \in 1..Len(n.dir) : ~StartsWithDot(n.dir[k])
    /\ EndsWith(n.file, ExtMd)
    /\ n.fault = "none"
    /\ (TitleHas(n) \/ ContentHas(n))

Qualifying == {i \in 1..Len(notes) : Qualifies(notes[i])}

TitleHit(r) == Contains(Lower(r.title), Lower(query))

\* C5: every hit whose title contains the query precedes every hit that
\* matches in its content only; within each group the hits are in descending
\* order of modification time, and hits of equal rank and time are in the
\* order of the walk.
SearchRanking ==
    spc = "done" =>
        \A i, j \in 1..Len(results) :
            i < j =>
                /\ TitleHit(results[j]) => TitleHit(results[i])
                /\ TitleHit(results[i]) = TitleHit(results[j])
                       => results[i].mtime >= results[j].mtime
                /\ (TitleHit(results[i]) = TitleHit(results[j]) /\ results[i].mtime = results[j].mtime)
                       => WalkIndex(results[i]) < WalkIndex(results[j])

\* C5 witness: a title hit precedes a more recently modified content-only
\* hit, and two hits of equal rank and time were returned.
SearchRankingWitness ==
    /\ spc = "done"
    /\ \E i, j \in 1..Len(results) :
          i < j /\ TitleHit(results[i]) /\ ~TitleHit(results[j]) /\ results[i].mtime < results[j].mtime
    /\ \E i, j \in 1..Len(results) :
          i < j /\ TitleHit(results[i]) = TitleHit(results[j]) /\ results[i].mtime = results[j].mtime

\* note i comes before note j in the ranking
RanksAbove(i, j) ==
    LET ri == IF TitleHas(notes[i]) THEN 0 ELSE 1
        rj == IF TitleHas(notes[j]) THEN 0 ELSE 1
    IN  \/ ri < rj
        \/ ri = rj /\ notes[i].mtime > notes[j].mtime
        \/ ri = rj /\ notes[i].mtime = notes[j].mtime /\ i < j

Returned == {WalkIndex(results[k]) : k \in 1..Len(results)}

\* C6: search_notes returns min(limit, n) of the n qualifying notes, and no
\* qualifying note that is left out ranks above a returned one.
LimitAfterRanking ==
    spc = "done" =>
        /\ Len(results) = (IF limit < Cardinality(Qualifying) THEN limit ELSE Cardinality(Qualifying))
        /\ Cardinality(Returned) = Len(results)
        /\ Returned \subseteq Qualifying
        /\ \A i \in Qualifying \ Returned : \A j \in Returned : ~RanksAbove(i, j)

\* C6 witness: the limit cut the list, and a note left out was met by the
\* walk before a note that was returned.
LimitWitness ==
    /\ spc = "done"
    /\ 0 < limit
    /\ limit < Cardinality(Qualifying)
    /\ \E i \in Qualifying \ Returned : \E j \in Returned : i < j

\* C7: the hits are exactly the readable .md files outside hidden directories
\* whose lower-cased title or lower-cased text contains the lower-cased query.
QueryMatching ==
    spc = "done" =>
        /\ Returned \subseteq Qualifying
        /\ \A k \in 1..Len(results) : Qualifies(notes[WalkIndex(results[k])])
        /\ limit >= Len(notes) => Returned = Qualifying

\* C7 witness: a search returned a note that matches in its title only, and
\* left out a file of the vault that does not qualify.
QueryMatchingWitness ==
    /\ spc = "done"
    /\ limit >= Len(notes)
    /\ \E i \in Returned : TitleHas(notes[i]) /\ ~ContentHas(notes[i])
    /\ \E i \in 1..Len(notes) : i \notin Returned

FirstLine(c) ==
    IF \E i \in 1..Len(c) : c[i] = NL
    THEN SubSeq(c, 1, (CHOOSE k \in 1..Len(c) : c[k] = NL /\ \A j \in 1..(k - 1) : c[j] # NL) - 1)
    ELSE c

\* C8: the preview of a hit is the first line of the note when that line has
\* at most 100 characters, its first 100 characters followed by "..." when
\* it is longer, and "No preview available" when the file is empty.
PreviewRule ==
    spc = "done" =>
        \A k \in 1..Len(results) :
            LET c == notes[WalkIndex(results[k])].content
            IN  results[k].preview =
                    IF c = <<>> THEN NoPreview
                    ELSE IF Len(FirstLine(c)) <= PreviewMax THEN FirstLine(c)
                    ELSE SubSeq(FirstLine(c), 1, PreviewMax) \o Ellipsis

\* the preview rule for the files that are not empty
PreviewRuleNonEmpty ==
    spc = "done" =>
        \A k \in 1..Len(results) :
            LET c == notes[WalkIndex(results[k])].content
            IN  c # <<>> =>
                  results[k].preview =
                    IF Len(FirstLine(c)) <= PreviewMax THEN FirstLine(c)
                    ELSE SubSeq(FirstLine(c), 1, PreviewMax) \o Ellipsis

-----------------------------------------------------------------------------
(* Claims about create_daily_note *)

\* C9: a call made when the target file exists returns the path of that file
\* and leaves every file and folder of the vault as it was; and a call that
\* follows a call which returned a path for the same title returns the same
\* absolute and relative path and changes nothing.
DailyIdempotent ==
    /\ (dret.kind # "none" /\ dret.existed) =>
          /\ dret.kind = "ok"
          /\ dret.rel = dret.target
          /\ dret.path = VaultRoot \o dret.target
          /\ ~dret.changed
    /\ (dprev.kind = "ok" /\ dret.title = dprev.title) =>
          /\ dret.kind = "ok"
          /\ dret.path = dprev.path
          /\ dret.rel = dprev.rel
          /\ ~dret.changed

\* C9 witness: the second of two calls for one title found the note that an
\* earlier call had written at another time, so that writing it again would
\* have changed its content.
DailyIdempotentWitness ==
    /\ dprev.kind = "ok"
    /\ dret.kind = "ok"
    /\ dret.title = dprev.title
    /\ dret.existed
    /\ dfs[dret.target].content # <<"u">>
    /\ dfs[dret.target].content # DefaultBody(dret.title, now)
    /\ ~HasKey(dconfig, "template")

\* C10: when creating the daily folder fails or writing the note fails,
\* create_daily_note returns (None, None) and does not raise.
DailyFailureOutcome ==
    (dret.folderFailed \/ dret.writeFailed) => dret.kind = "failed"

\* a failed write of the note file is answered with (None, None)
WriteFailureReturnsNone ==
    dret.writeFailed => dret.kind = "failed"

-----------------------------------------------------------------------------
(* Claims about the date-format translation *)

\* a occurs in b and is shorter than b
ProperSubstring(a, b) ==
    /\ Len(a) < Len(b)
    /\ \E i \in 1..(Len(b) - Len(a) + 1) : SubSeq(b, i, i + Len(a) - 1) = a

\* the strftime code the table gives for an Obsidian code
TableCode(code) ==
    LET i == CHOOSE k \in DOMAIN format_mapping : format_mapping[k][1] = code
    IN  format_mapping[i][2]

\* C13: the table lists every code ahead of the codes that are proper
\* substrings of it, so a pattern that is one code translates to that code's
\* strftime code (YYYY to %Y, not to %y%y), and "YYYY-MM-DD" translates to
\* "%Y-%m-%d", with no Y, M or D left in it.
TokenOrder ==
    /\ \A i, j \in DOMAIN format_mapping :
          ProperSubstring(format_mapping[j][1], format_mapping[i][1]) => i < j
    /\ (call.fn = "obsidian_to_python_format" /\ call.done) =>
          /\ call.arg \in ObsidianCodes => ret = TableCode(call.arg)
          /\ call.arg = IsoPattern =>
                /\ ret = <<"%","Y","-","%","m","-","%","d">>
                /\ \A k \in DOMAIN ret : ret[k] \notin {"M", "D"} /\ (ret[k] = "Y" => ret[k - 1] = "%")

\* "YYYY-MM-DD" has been translated
TokenOrderWitness ==
    /\ call.fn = "obsidian_to_python_format"
    /\ call.done
    /\ call.arg = IsoPattern
    /\ ret = <<"%","Y","-","%","m","-","%","d">>

-----------------------------------------------------------------------------
(* Claims about the registry file *)

\* C12: whatever obsidian.json holds, no exception leaves find_vaults or the
\* constructor, and a file that is not a map of well-formed entries is
\* treated as an empty registry: no vault is reported as registered.
RegistryRobust ==
    /\ pc # "crashed"
    /\ (pc = "ready" /\ regfile # "map") => \A i \in 1..Len(vaults) : ~vaults[i].is_registered

\* a registry file that is absent, not JSON or not an object is read as empty
UnreadableRegistryIsEmpty ==
    (regfile \in {"missing", "unparsable", "not_object"}) => pc # "crashed"

-----------------------------------------------------------------------------
(* Claims about get_vault_info *)

\* the notes of a listing: the .md files outside hidden directories
InfoNotes(ns) ==
    {i \in DOMAIN ns : EndsWith(ns[i].file, ExtMd) /\ \A k \in DOMAIN ns[i].dir : ns[i].dir[k][1] # "."}

\* the notes whose modification time can be read
InfoStatable(ns) == {i \in InfoNotes(ns) : ns[i].fault # "stat"}

Min(a, b) == IF a < b THEN a ELSE b

\* r is what the vault-metadata rule asks for on the listing ns
MetadataOf(ns, r) ==
    LET k == Cardinality(InfoStatable(ns))
        rn == r.recent_notes
    IN  /\ r.note_count = Cardinality(InfoNotes(ns))
        /\ Len(rn) = Min(RecentMax, k)
        /\ \A a, b \in DOMAIN rn : a < b => rn[a][2] >= rn[b][2] /\ rn[a][1] # rn[b][1]
        /\ \A a \in DOMAIN rn :
              \E i \in InfoStatable(ns) : rn[a] = <<ns[i].dir \o <<ns[i].file>>, ns[i].mtime>>
        /\ \A i \in InfoStatable(ns) :
              (\A a \in DOMAIN rn : rn[a][1] # ns[i].dir \o <<ns[i].file>>)
                  => \A a \in DOMAIN rn : rn[a][2] >= ns[i].mtime

\* C14: get_vault_info returns the number of .md files outside hidden
\* directories, and as recent notes the (path, mtime) of the min(5, k) most
\* recently modified of the k notes whose modification time could be read,
\* newest first; a note whose stat fails is only left out of the recent notes.
VaultMetadata ==
    (call.fn = "get_vault_info" /\ call.done) => MetadataOf(call.ns, ret)

\* the same, for the vaults whose .obsidian/config is absent or well-formed
VaultMetadataReadableConfig ==
    (call.fn = "get_vault_info" /\ call.done /\ call.cfg # "malformed") => MetadataOf(call.ns, ret)

\* a vault with more than five statable notes and one whose stat fails has
\* been inspected
VaultMetadataCut ==
    /\ call.fn = "get_vault_info"
    /\ call.done
    /\ call.cfg # "malformed"
    /\ Cardinality(InfoStatable(call.ns)) > RecentMax
    /\ InfoNotes(call.ns) # InfoStatable(call.ns)
    /\ Len(ret.recent_notes) = RecentMax

\* C17: a malformed .obsidian/config is replaced by an empty config and the
\* call still returns the note count and the recent notes it returns when the
\* file is absent.
ConfigErrorLocal ==
    (call.fn = "get_vault_info" /\ call.done /\ call.cfg = "malformed") =>
        /\ ret.config = "empty"
        /\ ret.note_count = get_vault_info(call.ns, "absent").note_count
        /\ ret.recent_notes = get_vault_info(call.ns, "absent").recent_notes

-----------------------------------------------------------------------------
(* Claims about failures during a search *)

\* the listing without the files whose read or stat fails
WithoutFaulty(ns) == SelectSeq(ns, LAMBDA n : n.fault = "none")

\* C15: a note that cannot be read or whose modification time cannot be read
\* is the only thing missing from the result: search_notes returns what it
\* returns on the same vault without that file, in the same order.
SearchErrorIsolation ==
    spc = "done" => results = search_notes(WithoutFaulty(notes), query, limit)

\* a search has met a note that fails and has still returned another note
SearchErrorIsolationWitness ==
    /\ spc = "done"
    /\ \E i \in DOMAIN notes :
          /\ notes[i].fault # "none"
          /\ WalkVisits(notes[i].dir)
          /\ IsMatch(notes[i].file, notes[i].content, Lower(query))
    /\ \E i \in DOMAIN notes : notes[i].fault = "read"
    /\ Len(results) >= 1

-----------------------------------------------------------------------------
(* Claims about the content of a new daily note *)

\* the template candidates of the vault that exist, <vaultRoot>/<ref>.md first
ExistingTemplates(fs, cfg) ==
    IF HasKey(cfg, "template")
    THEN SelectSeq(<< <<cfg.template \o ExtMd>>, <<cfg.template>> >>, LAMBDA p : fs[p].kind # "absent")
    ELSE <<>>

\* C16: a daily note that did not exist is written with the substituted text
\* of the first existing template candidate, whatever that text is (an empty
\* template gives an empty note), and with the default body only when no
\* template is configured or neither candidate exists.
DailyContentSource ==
    (dret.kind = "ok" /\ ~dret.existed) =>
        LET found == ExistingTemplates(dfs, dconfig)
        IN  dfs[dret.target].content =
                IF found # <<>>
                THEN process_template(dfs[found[1]].content, dret.title, dret.at)
                ELSE DefaultBody(dret.title, dret.at)

\* the same, for the vaults whose first existing template is not empty
DailyContentSourceNonEmpty ==
    (dret.kind = "ok" /\ ~dret.existed) =>
        LET found == ExistingTemplates(dfs, dconfig)
        IN  (found = <<>> \/ dfs[found[1]].content # <<>>) =>
                dfs[dret.target].content =
                    IF found # <<>>
                    THEN process_template(dfs[found[1]].content, dret.title, dret.at)
                    ELSE DefaultBody(dret.title, dret.at)

-----------------------------------------------------------------------------
(* Claims about create_new_note *)

\* C19: a successful create_new_note writes a path that did not exist before
\* the call, namely "<name>.md" if that was free and otherwise "<name> <k>.md"
\* for the smallest k >= 1 that was free (name is the sanitized title), and
\* leaves every other file as it was; so each successful call adds one file.
NeverOverwrites ==
    (call # <<>> /\ call.fn = "create_new_note" /\ ret.path # None) =>
        LET name == [i \in DOMAIN call.title |->
                        IF call.title[i] \in {"<", ">", ":", "\"", "/", "\\", "|", "?", "*"}
                        THEN "_" ELSE call.title[i]]
            path(k) == IF k = 0 THEN <<name \o ExtMd>> ELSE <<name \o <<" ">> \o Digits(k) \o ExtMd>>
        IN  /\ call.before[ret.rel].kind = "absent"
            /\ \E k \in 0..MaxNotes :
                  /\ ret.rel = path(k)
                  /\ \A j \in 0..(k - 1) : call.before[path(j)].kind # "absent"
            /\ dfs[ret.rel].kind = "file"
            /\ \A p \in VPaths \ {ret.rel} : dfs[p] = call.before[p]
            /\ Cardinality({p \in VPaths : dfs[p].kind = "file"})
                   = Cardinality({p \in VPaths : call.before[p].kind = "file"}) + 1

\* a note was created under a numbered name next to the note that had the
\* plain name, which kept its content
NeverOverwritesWitness ==
    /\ call # <<>>
    /\ call.fn = "create_new_note"
    /\ ret.path # None
    /\ ret.rel = Candidate(Sanitize(call.title), 1)
    /\ call.before[Candidate(Sanitize(call.title), 0)].kind = "file"
    /\ dfs[Candidate(Sanitize(call.title), 0)] = call.before[Candidate(Sanitize(call.title), 0)]

-----------------------------------------------------------------------------
(* Claims about open_note *)

\* C20: the vault open_note builds the URI from is a vault whose directory
\* tree contains the note, and the note's path relative to it has no ".."; a
\* vault whose root is only a string prefix of the note's path is not chosen.
NoteInChosenVault ==
    (call.fn = "open_note" /\ call.done /\ ret.opened = "uri") =>
        /\ Len(ret.vault_path) <= Len(call.note_path)
        /\ \A k \in DOMAIN ret.vault_path : call.note_path[k] = ret.vault_path[k]
        /\ \A k \in DOMAIN ret.rel_path : ret.rel_path[k] # <<".", ".">>

\* a note inside a listed vault is opened through a vault that contains it
NoteInsideVaultResolved ==
    (call.fn = "open_note" /\ call.done
        /\ \A i \in DOMAIN vaults :
              StartsWith(PathStr(call.note_path), PathStr(vaults[i].path))
                  => IsPrefix(vaults[i].path, call.note_path)) =>
        (ret.opened = "uri" => IsPrefix(ret.vault_path, call.note_path))

-----------------------------------------------------------------------------
(* Claims about the answers of the launcher *)

\* the first word of the query of the last run, in lower case
QueryWord ==
    LET ws == SplitWords(QueryStr(QueryParam(call.request.parameters)))
    IN  IF ws = <<>> THEN <<>> ELSE Lower(ws[1])

\* C11: whatever the query string (in particular each of the command words
\* open, search, new, vault, daily, recent, vaults, help, with or without
\* arguments, with no, one or several vaults), what query returns is a list
\* whose elements each have a Title, a SubTitle and an IcoPath, never None.
WellFormedResultList ==
    (call # <<>> /\ ret.qret.kind \notin {"not called", "raised"}) =>
        /\ ret.qret.kind = "list"
        /\ \A i \in DOMAIN ret.qret.items :
              {"Title", "SubTitle", "IcoPath"} \subseteq DOMAIN ret.qret.items[i]

\* query returns such a list for every query whose first word is not "help"
WellFormedUnlessHelp ==
    (call # <<>> /\ ret.qret.kind \notin {"not called", "raised"} /\ QueryWord # CmdHelp) =>
        /\ ret.qret.kind = "list"
        /\ \A i \in DOMAIN ret.qret.items :
              {"Title", "SubTitle", "IcoPath"} \subseteq DOMAIN ret.qret.items[i]

\* query returns None exactly for the queries whose first word is "help"
HelpReturnsNone ==
    (call # <<>> /\ ret.qret.kind # "not called") =>
        (ret.qret.kind = "None" <=> QueryWord = CmdHelp)

\* C18: every run of the program, whatever its command line, prints exactly
\* one object {"result": <list>}.
OneResponsePerRun ==
    call # <<>> => (Len(ret.printed) = 1 /\ ret.printed[1].result.kind = "list")

\* a run whose constructor completes prints one list when main has a branch
\* for the method, query apart, and when the argument is not a JSON object
OneResponseForKnownMethods ==
    (call # <<>> /\ ret.exit = "ok"
        /\ \/ call.request.method \in {"show_commands", "show_vaults", "execute_command", "open_vault",
                                       "open_note", "create_daily_note_in_vault", "launch_obsidian"}
           \/ call.request.argv \in {"not_json", "not_object"}) =>
        (Len(ret.printed) = 1 /\ ret.printed[1].result.kind = "list")

-----------------------------------------------------------------------------
(* Claims about adjacent date-format codes *)

\* the pairs of format_mapping whose code s starts with
CodesAt(s) == {k \in DOMAIN format_mapping : IsPrefix(format_mapping[k][1], s)}

\* s read from left to right as codes of the table, the longest code first,
\* any other character standing for itself
RECURSIVE Tokens(_)
Tokens(s) ==
    IF s = <<>> THEN <<>>
    ELSE IF CodesAt(s) = {}
         THEN <<[text |-> <<Head(s)>>, out |-> <<Head(s)>>, code |-> FALSE]>> \o Tokens(Tail(s))
         ELSE LET k == CHOOSE i \in CodesAt(s) :
                          \A j \in CodesAt(s) : Len(format_mapping[j][1]) <= Len(format_mapping[i][1])
                  text == format_mapping[k][1]
              IN  <<[text |-> text, out |-> format_mapping[k][2], code |-> TRUE]>>
                      \o Tokens(SubSeq(s, Len(text) + 1, Len(s)))

\* the translations of the tokens, one after the other
RECURSIVE Tokenwise(_)
Tokenwise(toks) ==
    IF toks = <<>> THEN <<>> ELSE Head(toks).out \o Tokenwise(Tail(toks))

\* two codes of the same letter, in either case, stand side by side
SameLetterAdjacent(toks) ==
    \E i \in 1..(Len(toks) - 1) :
        /\ toks[i].code
        /\ toks[i + 1].code
        /\ LowerChar(toks[i].text[1]) = LowerChar(toks[i + 1].text[1])

\* C21: a pattern made of codes of the table, with or without separators
\* between them, translates to the translations of its codes one after the
\* other; what an earlier replacement wrote is not matched again by a later
\* code of the table (DD or D followed at once by ddd).
AdjacencyInsensitive ==
    (call.fn = "obsidian_to_python_format" /\ call.done) =>
        ret = Tokenwise(Tokens(call.arg))

\* the translation is code by code whenever no two codes of one letter,
\* upper or lower case, touch
AdjacencyOfDistinctLetters ==
    (call.fn = "obsidian_to_python_format" /\ call.done /\ ~SameLetterAdjacent(Tokens(call.arg))) =>
        ret = Tokenwise(Tokens(call.arg))

\* "DDddd" comes back as "%%A": the d of %d is read as part of dddd
DayThenWeekdayRematched ==
    (call.fn = "obsidian_to_python_format" /\ call.done /\ call.arg = <<"D","D","d","d","d">>) =>
        ret = <<"%","%","A">>

-----------------------------------------------------------------------------
(* Claims about what a query writes *)

\* the run calls query: no argument at all, or the method "query"
RunsQuery(request) ==
    request.argv = "none" \/ (request.argv = "object" /\ request.method = "query")

\* what follows the first word of the query a request carries
ArgsOf(request) ==
    LET ws == SplitWords(QueryStr(QueryParam(request.parameters)))
    IN  IF ws = <<>> THEN <<>> ELSE JoinSpace(Tail(ws))

\* the query is "new <title>" with a vault known, or "daily" with exactly
\* one vault known
WritingQuery(c) ==
    /\ c.request.argv = "object"
    /\ \/ CommandOf(c.request) = CmdNew /\ ArgsOf(c.request) # <<>> /\ c.known >= 1
       \/ CommandOf(c.request) = CmdDaily /\ c.known = 1

\* C22: query creates or changes a file of a vault only for "new <title>"
\* with at least one vault and for "daily" with exactly one vault known; a
\* run of any other query (none, vaults, search, vault, open, recent, help,
\* free text, "new" alone, "daily" with two vaults) leaves the files of every
\* vault and what they hold as they were.
QueryConfined ==
    [][(call = <<>> /\ call' # <<>> /\ RunsQuery(call'.request) /\ ~WritingQuery(call'))
           => vfs' = vfs]_vars

\* "daily" was asked with two vaults known, after an earlier run had written
\* a note, and offered the vaults to choose from
QueryConfinedWitness ==
    /\ call # <<>>
    /\ RunsQuery(call.request)
    /\ CommandOf(call.request) = CmdDaily
    /\ call.known = 2
    /\ ret.qret.kind = "list"
    /\ Len(ret.qret.items) = 3
    /\ vfs # MainVaultFiles

\* "new <title>" does write: a run that answers with the created note has
\* left a file that was not there
NewTitleWrites ==
    [][(call = <<>> /\ call' # <<>> /\ RunsQuery(call'.request) /\ WritingQuery(call')
           /\ CommandOf(call'.request) = CmdNew
           /\ ret'.qret.kind = "list" /\ "JsonRPCAction" \in DOMAIN ret'.qret.items[1])
           => vfs' # vfs]_vars

====
